---- MODULE Spec2Model ----
(***************************************************************************)
(* Model of the cancel-workflow-runs action.                               *)
(*                                                                         *)
(* The policy-based variant (cancelMode = duplicates | self | failedJobs | *)
(* namedJobs): run() resolves the source run, builds the index of queued   *)
(* and in_progress runs, evaluates shouldBeCancelled for every run of the  *)
(* index, sorts the candidate ids and cancels them one after the other,    *)
(* then comments on the pull requests of the cancelled runs.               *)
(*                                                                         *)
(* Specifications:                                                         *)
(*   SpecEval     the policy evaluator shouldBeCancelled as a function of  *)
(*                its arguments, drawn from bounded sets;                  *)
(*   SpecInspect  the job inspector jobsMatchingNames as a function of its *)
(*                arguments;                                               *)
(*   Spec         one invocation of run(), against a repository whose runs *)
(*                are drawn from bounded sets;                             *)
(*   SpecLive     Spec with every request returning or failing;            *)
(*   SpecRerun    the action invoked again after it ended;                 *)
(*   SpecSweep    the event-driven variant, on the event 'schedule': the   *)
(*                sweep that keeps the newest run of every head;           *)
(*   SpecPush     the original variant, which pages through the runs of    *)
(*                the branch and does not await its cancel calls;          *)
(*   SpecDuplicates  the second variant of main.ts: cancelDuplicates on    *)
(*                schedule, push and pull_request;                         *)
(*   SpecIndex    the index builder getWorkflowRuns as a function of the   *)
(*                pages of its two listings.                               *)
(***************************************************************************)
EXTENDS Integers, Sequences, FiniteSets, TLC

VARIABLES
    \* ---- inputs of the invocation (core.getInput / environment) ----
    cancelMode,          \* input 'cancelMode'
    selfRunId,           \* GITHUB_RUN_ID
    sourceRunId,         \* input 'sourceRunId' || selfRunId
    eventName,           \* GITHUB_EVENT_NAME
    notifyPRCancel,      \* input 'notifyPRCancel'
    jobNameRegexps,      \* input 'jobNameRegexps', parsed
    \* ---- the repository as GitHub holds it ----
    runs,                \* run id -> run object of the source workflow
    \* ---- state of the invocation ----
    pc,                  \* where run() stands
    headRepo,            \* getOrigin: head_repository.full_name of the source
    headBranch,          \* getOrigin: head_branch of the source run
    sourceEventName,     \* getOrigin: event of the source run
    workflowRuns,        \* the TreeMap run_number -> run object
    evaluated,           \* number of entries of workflowRuns iterated so far
    idsToCancel,         \* candidate ids, in collection order
    pullRequestToNotify, \* pull requests found for the candidates
    sortedIdsToCancel,   \* idsToCancel after the sort
    cancelCalls,         \* run ids cancelWorkflowRun was called with, in order
    cancelled,           \* run ids whose cancel call succeeded
    comments,            \* pull requests commented after the cancellation
    calls,               \* kinds of network calls issued so far
    cancelledRuns,       \* output 'cancelledRuns', set when pc = "done"
    failure,             \* core.setFailed message (NoFailure while none)
    \* ---- SpecEval: one application of shouldBeCancelled ----
    evalArgs,            \* the arguments
    evalResult,          \* the outcome, once pc = "evaluated"
    \* ---- the other specifications ----
    invocation,          \* SpecRerun: number of the invocation under way
    workflowId,          \* SpecSweep: input 'workflow'
    failFastJobNames,    \* SpecSweep: input 'failFastJobNames', parsed
    headsToRunIdMap,     \* SpecSweep: head -> id of the run kept for it
    outstanding,         \* SpecPush: cancel calls issued and not yet settled
    ref,                 \* SpecPush: GITHUB_REF
    matched,             \* SpecPush: the invoking run was met in the listing
    workflow,            \* SpecPush: workflow_url of the invoking run
    count,               \* SpecPush: pages of the listing fetched so far
    heads                \* SpecDuplicates: the heads a run was kept for

vars == <<cancelMode, selfRunId, sourceRunId, eventName, notifyPRCancel,
          jobNameRegexps, runs, pc, headRepo, headBranch, sourceEventName,
          workflowRuns, evaluated, idsToCancel, pullRequestToNotify,
          sortedIdsToCancel, cancelCalls, cancelled, comments, calls,
          cancelledRuns, failure, evalArgs, evalResult, invocation,
          workflowId, failFastJobNames, headsToRunIdMap, outstanding, ref,
          matched, workflow, count, heads>>

configVars == <<cancelMode, selfRunId, sourceRunId, eventName, notifyPRCancel,
                jobNameRegexps, runs>>

evalVars == <<evalArgs, evalResult>>

pushVars == <<ref, matched, workflow, count>>

dupVars == <<heads>>

otherVars == <<invocation, workflowId, failFastJobNames, headsToRunIdMap, outstanding, pushVars, dupVars>>

-----------------------------------------------------------------------------
(* Bounds of the model *)

\* run ids (and run numbers) range over 1..MaxRunId
MaxRunId == 3

-----------------------------------------------------------------------------
(* Values *)

RunIds == 1..MaxRunId

\* the id of an invoking run that belongs to another workflow
ExternalRunId == MaxRunId + 1

\* the events a run may be cancelled for
CANCELLABLE_RUNS ==
    <<"push", "pull_request", "workflow_run", "schedule", "workflow_dispatch">>

\* enum CancelMode
DUPLICATES == "duplicates"
SELF == "self"
FAILED_JOBS == "failedJobs"
NAMED_JOBS == "namedJobs"
CancelMode == {DUPLICATES, SELF, FAILED_JOBS, NAMED_JOBS}

\* JavaScript's undefined, for a head repository that is not given
Undefined == "undefined"

\* a git ref: its prefix and what follows it
branchPrefix == "refs/heads/"
tagPrefix == "refs/tags/"
Ref(prefix, name) == [prefix |-> prefix, name |-> name]
BranchRef(name) == Ref(branchPrefix, name)
NoFailure == "none"

Range(s) == {s[i] : i \in DOMAIN s}

\* Array.prototype.includes
Includes(arr, x) == \E i \in DOMAIN arr : arr[i] = x

-----------------------------------------------------------------------------
(* Job names and regular expressions.  A job name is a sequence of words;  *)
(* a regular expression is a literal sequence of words, optionally         *)
(* anchored at the start (^) and at the end ($); without anchors it        *)
(* matches anywhere in the name, as String.prototype.match does.           *)

Regexp(start, lit, end) == [start |-> start, lit |-> lit, end |-> end]

\* s.match(regexp)
Match(s, regexp) ==
    \E i \in 1..(Len(s) + 1) :
        LET j == i + Len(regexp.lit) - 1 IN
            /\ j <= Len(s)
            /\ SubSeq(s, i, j) = regexp.lit
            /\ regexp.start => i = 1
            /\ regexp.end => j = Len(s)

RECURSIVE matchFrom(_, _, _)
matchFrom(s, regexps, k) ==
    IF k > Len(regexps) THEN FALSE
    ELSE IF Match(s, regexps[k]) THEN TRUE
    ELSE matchFrom(s, regexps, k + 1)

matchInArray(s, regexps) == matchFrom(s, regexps, 1)

\* outcomes of an async function: a returned boolean or a thrown error
Returned(b) == [threw |-> FALSE, value |-> b]
Threw == [threw |-> TRUE, value |-> FALSE]

\* a scan of one page that stops at the first job with a matching name
RECURSIVE scanJobs_firstMatchDecides(_, _, _, _)
scanJobs_firstMatchDecides(page, jobNameRegexps_, checkIfFailed, k) ==
    IF k > Len(page) THEN FALSE
    ELSE LET job == page[k] IN
        IF matchInArray(job.name, jobNameRegexps_)
        THEN (checkIfFailed => job.conclusion = "failure")
        ELSE scanJobs_firstMatchDecides(page, jobNameRegexps_, checkIfFailed, k + 1)

\* the scan of one page of jobs: TRUE when the function returns true in it
RECURSIVE scanJobs(_, _, _, _)
scanJobs(page, jobNameRegexps_, checkIfFailed, k) ==
    IF k > Len(page) THEN FALSE
    ELSE LET job == page[k] IN
        IF matchInArray(job.name, jobNameRegexps_)
        THEN IF checkIfFailed
             THEN IF job.conclusion = "failure"
                  THEN TRUE
                  ELSE scanJobs(page, jobNameRegexps_, checkIfFailed, k + 1)
             ELSE TRUE
        ELSE scanJobs(page, jobNameRegexps_, checkIfFailed, k + 1)

\* a scan that reads the first page of jobs only
scanPages_firstPageOnly(pages, jobNameRegexps_, checkIfFailed, failAt, p) ==
    IF p > Len(pages) THEN Returned(FALSE)
    ELSE IF failAt = p THEN Threw
    ELSE Returned(scanJobs(pages[p], jobNameRegexps_, checkIfFailed, 1))

\* the pages of jobs, fetched one after the other; the fetch of page failAt
\* throws (failAt = 0: no fetch throws)
RECURSIVE scanPages(_, _, _, _, _)
scanPages(pages, jobNameRegexps_, checkIfFailed, failAt, p) ==
    IF p > Len(pages) THEN Returned(FALSE)
    ELSE IF failAt = p THEN Threw
    ELSE IF scanJobs(pages[p], jobNameRegexps_, checkIfFailed, 1)
         THEN Returned(TRUE)
    ELSE scanPages(pages, jobNameRegexps_, checkIfFailed, failAt, p + 1)

jobsMatchingNames(pages, jobNameRegexps_, checkIfFailed, failAt) ==
    scanPages(pages, jobNameRegexps_, checkIfFailed, failAt, 1)

-----------------------------------------------------------------------------
(* The policy evaluator *)

\* the completed guard left out
IsCompleted_dropped(runItem) == FALSE

\* 'completed' === runItem.status.toString()
IsCompleted(runItem) == "completed" = runItem.status

\* the event guard accepting every event
IsCancellableEvent_any(runItem) == TRUE

\* CANCELLABLE_RUNS.includes(runItem.event.toString())
IsCancellableEvent(runItem) == Includes(CANCELLABLE_RUNS, runItem.event)

\* the source run compared with <= instead of ===
selfDecision_older(runItem, sourceRunId_) == runItem.id <= sourceRunId_

\* the branch cancelMode === CancelMode.SELF
selfDecision(runItem, sourceRunId_) ==
    IF runItem.id = sourceRunId_ THEN TRUE ELSE FALSE

\* the self-preservation test left out: the source run is its own duplicate
duplicatesDecision_noSelfPreservation(runItem, headRepo_, sourceRunId_) ==
    LET runHeadRepo == runItem.head_repository.full_name IN
    IF headRepo_ # Undefined /\ runHeadRepo # headRepo_ THEN FALSE
    ELSE IF runItem.id > sourceRunId_ THEN FALSE
    ELSE TRUE

\* the head repository test left out
duplicatesDecision_anyRepo(runItem, headRepo_, sourceRunId_) ==
    IF runItem.id = sourceRunId_ THEN FALSE
    ELSE IF runItem.id > sourceRunId_ THEN FALSE
    ELSE TRUE

\* the branch cancelMode === CancelMode.DUPLICATES
duplicatesDecision(runItem, headRepo_, sourceRunId_) ==
    LET runHeadRepo == runItem.head_repository.full_name IN
    IF headRepo_ # Undefined /\ runHeadRepo # headRepo_ THEN FALSE
    ELSE IF runItem.id = sourceRunId_ THEN FALSE
    ELSE IF runItem.id > sourceRunId_ THEN FALSE
    ELSE TRUE

\* runItem: the run object; headRepo_: the expected head repository or
\* Undefined; failAt: the page of the job listing whose fetch throws (0: none)
shouldBeCancelled(runItem, headRepo_, cancelMode_, sourceRunId_, jobNamesRegexps, failAt) ==
    IF IsCompleted(runItem) THEN Returned(FALSE)
    ELSE IF ~IsCancellableEvent(runItem) THEN Returned(FALSE)
    ELSE IF cancelMode_ = FAILED_JOBS THEN
        jobsMatchingNames(runItem.jobs, jobNamesRegexps, TRUE, failAt)
    ELSE IF cancelMode_ = NAMED_JOBS THEN
        jobsMatchingNames(runItem.jobs, jobNamesRegexps, FALSE, failAt)
    ELSE IF cancelMode_ = SELF THEN
        Returned(selfDecision(runItem, sourceRunId_))
    ELSE IF cancelMode_ = DUPLICATES THEN
        Returned(duplicatesDecision(runItem, headRepo_, sourceRunId_))
    ELSE Threw

-----------------------------------------------------------------------------
(* Values the model draws the repository from *)

Repos == {"r1", "r2"}
Branches == {"b1", "b2"}
Statuses == {"queued", "in_progress", "completed"}
\* the cancellable events and two events that are not cancellable
Events == Range(CANCELLABLE_RUNS) \cup {"release", "issue_comment"}

Job(name, conclusion) == [name |-> name, conclusion |-> conclusion]
BuildDocs == <<"Build", "docs">>
StaticChecks == <<"Static", "checks">>

\* the job listings of a run: a sequence of pages, each a sequence of jobs
NoJobs == << <<>> >>
JobsDocsOnly == << <<Job(BuildDocs, "success")>> >>
JobsStaticFailed == << <<Job(BuildDocs, "success"), Job(StaticChecks, "failure")>> >>
JobsFailedLater == << <<Job(StaticChecks, "success")>>, <<Job(BuildDocs, "failure"), Job(StaticChecks, "failure")>> >>
JobListings == {NoJobs, JobsDocsOnly, JobsStaticFailed, JobsFailedLater}

\* the values of the input 'jobNameRegexps'
NoRegexps == <<>>
RegexpsStatic == <<Regexp(TRUE, StaticChecks, TRUE)>>
RegexpsDocsOrChecks == <<Regexp(TRUE, BuildDocs, TRUE), Regexp(FALSE, <<"checks">>, FALSE)>>
RegexpLists == {NoRegexps, RegexpsStatic, RegexpsDocsOrChecks}

HeadRepository(repo) == [full_name |-> repo]

\* a run object of the listing (ActionsListWorkflowRunsResponseWorkflowRunsItem)
RunItem(id, num, status, event, repo, branch, jobs) == [id |-> id, run_number |-> num, status |-> status, event |-> event, head_repository |-> HeadRepository(repo), head_branch |-> branch, jobs |-> jobs]

-----------------------------------------------------------------------------
(* SpecEval: shouldBeCancelled applied once to arguments drawn from        *)
(* bounded sets.                                                           *)

EvalRunItems == {RunItem(id, id, st, ev, repo, br, jobs) : id \in RunIds, st \in Statuses, ev \in Events, repo \in Repos, br \in Branches, jobs \in {NoJobs, JobsStaticFailed}}

EvalArgs == [runItem : EvalRunItems, headRepo : Repos \cup {Undefined}, cancelMode : CancelMode, sourceRunId : RunIds, jobNamesRegexps : {RegexpsStatic}, failAt : {0, 1}]

Idle ==
    /\ cancelMode = DUPLICATES
    /\ selfRunId = 1
    /\ sourceRunId = 1
    /\ eventName = "push"
    /\ notifyPRCancel = FALSE
    /\ jobNameRegexps = NoRegexps
    /\ runs = <<>>
    /\ headRepo = Undefined
    /\ headBranch = Undefined
    /\ sourceEventName = Undefined
    /\ workflowRuns = <<>>
    /\ evaluated = 0
    /\ idsToCancel = <<>>
    /\ pullRequestToNotify = <<>>
    /\ sortedIdsToCancel = <<>>
    /\ cancelCalls = <<>>
    /\ cancelled = {}
    /\ comments = <<>>
    /\ calls = {}
    /\ cancelledRuns = <<>>
    /\ failure = NoFailure
    /\ invocation = 1
    /\ workflowId = ""
    /\ failFastJobNames = <<>>
    /\ headsToRunIdMap = <<>>
    /\ outstanding = {}
    /\ ref = BranchRef("b1")
    /\ matched = FALSE
    /\ workflow = ""
    /\ count = 0
    /\ heads = {}

InitEval ==
    /\ Idle
    /\ pc = "eval"
    /\ evalArgs \in EvalArgs
    /\ evalResult = Returned(FALSE)

Evaluate ==
    /\ pc = "eval"
    /\ pc' = "evaluated"
    /\ evalResult' = shouldBeCancelled(evalArgs.runItem, evalArgs.headRepo, evalArgs.cancelMode, evalArgs.sourceRunId, evalArgs.jobNamesRegexps, evalArgs.failAt)
    /\ UNCHANGED <<evalArgs, configVars, otherVars, headRepo, headBranch, sourceEventName, workflowRuns, evaluated, idsToCancel, pullRequestToNotify, sortedIdsToCancel, cancelCalls, cancelled, comments, calls, cancelledRuns, failure>>

NextEval == Evaluate

SpecEval == InitEval /\ [][NextEval]_vars

-----------------------------------------------------------------------------
(* The job inspector applied to one job listing (SpecInspect) *)

\* a job that has not finished has conclusion null
Conclusions == {"success", "failure", "null"}
InspectJobs == {Job(name, conclusion) : name \in {BuildDocs, StaticChecks}, conclusion \in Conclusions}
\* pages of no, one or two jobs; listings of one or two pages
InspectPages == {<<>>} \cup {<<j>> : j \in InspectJobs} \cup {<<j, k>> : j, k \in InspectJobs}
InspectListings == {<<p>> : p \in InspectPages} \cup {<<p, q>> : p, q \in InspectPages}

InspectArgs == UNION {[pages : {pages}, jobNameRegexps : RegexpLists, checkIfFailed : BOOLEAN, failAt : 0..Len(pages)] : pages \in InspectListings}

InitInspect ==
    /\ Idle
    /\ pc = "inspect"
    /\ evalArgs \in InspectArgs
    /\ evalResult = Returned(FALSE)

Inspect ==
    /\ pc = "inspect"
    /\ pc' = "inspected"
    /\ evalResult' = jobsMatchingNames(evalArgs.pages, evalArgs.jobNameRegexps, evalArgs.checkIfFailed, evalArgs.failAt)
    /\ UNCHANGED <<evalArgs, configVars, otherVars, headRepo, headBranch, sourceEventName, workflowRuns, evaluated, idsToCancel, pullRequestToNotify, sortedIdsToCancel, cancelCalls, cancelled, comments, calls, cancelledRuns, failure>>

NextInspect == Inspect

SpecInspect == InitInspect /\ [][NextInspect]_vars

-----------------------------------------------------------------------------
(* The run listing: queries, pages and the index *)

\* runs per page of a listing
PageSize == 2

statusValues == <<"queued", "in_progress">>

\* the request parameters next to owner, repo and workflow_id; Undefined
\* stands for a parameter that is not given
createListRunsQueryOtherRuns_anyEvent(status, headBranch_, eventName_) == [status |-> status, branch |-> headBranch_, event |-> Undefined, run_id |-> 0]
createListRunsQueryOtherRuns(status, headBranch_, eventName_) == [status |-> status, branch |-> headBranch_, event |-> eventName_, run_id |-> 0]
createListRunsQueryMyOwnRun(status, runId) == [status |-> status, branch |-> Undefined, event |-> Undefined, run_id |-> runId]
createListRunsQueryAllRuns(status) == [status |-> status, branch |-> Undefined, event |-> Undefined, run_id |-> 0]

\* the callback findAndCancelRuns hands to getWorkflowRuns
createListRunQuery(status) ==
    IF cancelMode = SELF THEN createListRunsQueryMyOwnRun(status, sourceRunId)
    ELSE IF cancelMode = FAILED_JOBS \/ cancelMode = NAMED_JOBS THEN createListRunsQueryAllRuns(status)
    ELSE createListRunsQueryOtherRuns(status, headBranch, sourceEventName)

\* GitHub's "list workflow runs": the runs of the workflow that have the
\* status, the branch and the event asked for.  The endpoint defines no
\* run_id parameter and filters nothing by it.
\* statusFiltered: the runs listed are the runs of that status; otherwise
\* the server lists runs of any status (the code tests the status of every
\* run it is given, part_000:209)
ListedRuns(query, statusFiltered) ==
    {id \in DOMAIN runs :
        /\ statusFiltered => runs[id].status = query.status
        /\ query.branch # Undefined => runs[id].head_branch = query.branch
        /\ query.event # Undefined => runs[id].event = query.event}

\* a set of run ids as the listing orders it: newest first
RECURSIVE NewestFirst(_)
NewestFirst(ids) ==
    IF ids = {} THEN <<>>
    ELSE LET m == CHOOSE x \in ids : \A y \in ids : y <= x IN
         <<runs[m]>> \o NewestFirst(ids \ {m})

\* the listing cut in pages; an empty listing is one empty page
RECURSIVE Paginate(_)
Paginate(items) ==
    IF Len(items) <= PageSize THEN <<items>>
    ELSE <<SubSeq(items, 1, PageSize)>> \o Paginate(SubSeq(items, PageSize + 1, Len(items)))

\* the payload (item.data) of one page: a bare array, an object holding the
\* array under workflow_runs, or an object of another shape
PageShapes == {"array", "object", "other"}
PageData(shape, items) == [shape |-> shape, array |-> IF shape = "array" THEN items ELSE <<>>, workflow_runs |-> IF shape = "object" THEN items ELSE <<>>]

\* item.data.length === undefined
LengthUndefined(data) == data.shape # "array"

\* what 'for (const element of elements)' iterates; NotIterable when
\* elements is undefined and the loop throws a TypeError
NotIterable == [iterable |-> FALSE, items |-> <<>>]
Iterable(items) == [iterable |-> TRUE, items |-> items]
Elements(data) ==
    IF LengthUndefined(data)
    THEN IF data.shape = "object" THEN Iterable(data.workflow_runs) ELSE NotIterable
    ELSE Iterable(data.array)

\* TreeMap.set
TreeMapSet(map, key, value) == [k \in DOMAIN map \cup {key} |-> IF k = key THEN value ELSE map[k]]

\* the keys of a TreeMap in iteration order (ascending)
RECURSIVE KeysAscending(_)
KeysAscending(keys) ==
    IF keys = {} THEN <<>>
    ELSE LET m == CHOOSE x \in keys : \A y \in keys : x <= y IN
         <<m>> \o KeysAscending(keys \ {m})

\* the TreeMap with TreeMap.set keeping the record a key already has
RECURSIVE setElements_keepFirst(_, _, _)
setElements_keepFirst(map, elements, k) ==
    IF k > Len(elements) THEN map
    ELSE setElements_keepFirst(IF elements[k].run_number \in DOMAIN map THEN map ELSE TreeMapSet(map, elements[k].run_number, elements[k]), elements, k + 1)

\* 'for (const element of elements) workflowRuns.set(element.run_number, element)'
RECURSIVE setElements(_, _, _)
setElements(map, elements, k) ==
    IF k > Len(elements) THEN map
    ELSE setElements(TreeMapSet(map, elements[k].run_number, elements[k]), elements, k + 1)

\* the pages of one listing, from page p on.  shapes[p] is the shape of the
\* payload of page p, or "error" when its request fails.
RECURSIVE addPages(_, _, _, _)
addPages(map, pages, shapes, p) ==
    IF p > Len(pages) THEN [threw |-> FALSE, value |-> map]
    ELSE IF shapes[p] = "error" THEN [threw |-> TRUE, value |-> map]
    ELSE LET elements == Elements(PageData(shapes[p], pages[p])) IN
         IF ~elements.iterable THEN [threw |-> TRUE, value |-> map]
         ELSE addPages(setElements(map, elements.items, 1), pages, shapes, p + 1)

\* the loop over statusValues, from status s on; listings[s] are the pages
\* of the listing for statusValues[s] and shapes[s] their shapes
RECURSIVE addStatuses(_, _, _, _)
addStatuses(map, listings, shapes, s) ==
    IF s > Len(statusValues) THEN [threw |-> FALSE, value |-> map]
    ELSE LET got == addPages(map, listings[s], shapes[s], 1) IN
         IF got.threw THEN got ELSE addStatuses(got.value, listings, shapes, s + 1)

\* the listings createListRunQuery gives for the runs of the repository
RunListings(statusFiltered) == [s \in 1..Len(statusValues) |-> Paginate(NewestFirst(ListedRuns(createListRunQuery(statusValues[s]), statusFiltered)))]

getWorkflowRuns(shapes, statusFiltered) == addStatuses(<<>>, RunListings(statusFiltered), shapes, 1)

\* idsToCancel.sort((id1, id2) => id1 - id2)
RECURSIVE Insert(_, _)
Insert(sorted, x) ==
    IF sorted = <<>> THEN <<x>>
    ELSE IF x - Head(sorted) < 0 THEN <<x>> \o sorted
    ELSE <<Head(sorted)>> \o Insert(Tail(sorted), x)

\* the sort left out
SortAscending_unsorted(ids) == ids

RECURSIVE SortAscending(_)
SortAscending(ids) ==
    IF ids = <<>> THEN <<>>
    ELSE Insert(SortAscending(SubSeq(ids, 1, Len(ids) - 1)), ids[Len(ids)])

-----------------------------------------------------------------------------
(* Spec: one invocation of run() *)

\* the assignments of run numbers to run ids: in the order of the ids, in
\* the reverse order, and with the first two exchanged
Numberings == {[i \in RunIds |-> i], [i \in RunIds |-> MaxRunId + 1 - i], [i \in RunIds |-> IF i = 1 THEN 2 ELSE IF i = 2 THEN 1 ELSE i]}

\* the usual run of the repository: active, on the source's head
BaseRun(id, num, event) == RunItem(id, num, "in_progress", event, "r1", "b1", JobsDocsOnly)

\* the runs that differ from the usual run in one field
OddRuns(id, num, event) ==
    LET base == BaseRun(id, num, event) IN
        {[base EXCEPT !.status = st] : st \in Statuses}
        \cup {[base EXCEPT !.event = ev] : ev \in {"push", "pull_request", "workflow_run", "release"}}
        \cup {[base EXCEPT !.head_repository = HeadRepository("r2")], [base EXCEPT !.head_branch = "b2"]}
        \cup {[base EXCEPT !.jobs = jobs] : jobs \in JobListings}

\* the kinds of network calls
GetWorkflowRun == "actions.getWorkflowRun"
ListWorkflowRuns == "actions.listWorkflowRuns"
ListJobsForWorkflowRun == "actions.listJobsForWorkflowRun"
CancelWorkflowRun == "actions.cancelWorkflowRun"
PullsList == "pulls.list"
CreateComment == "issues.createComment"

\* The repository holds MaxRunId runs of the source workflow, all but one of
\* them usual runs.  Either the usual runs are push runs, numbered in any of
\* the Numberings, and no notification is asked for; or they are
\* pull_request runs, numbered in the order of their ids, and notifications
\* are asked for.  The invoking run is the source run, or a run of another
\* workflow that was triggered by the source run.
Start(allCompleted) ==
    /\ cancelMode \in CancelMode
    /\ sourceRunId \in RunIds
    /\ selfRunId \in {sourceRunId, ExternalRunId}
    /\ notifyPRCancel \in BOOLEAN
    /\ jobNameRegexps \in {NoRegexps, RegexpsDocsOrChecks}
    /\ \E numbering \in Numberings, odd \in RunIds :
         LET event == IF notifyPRCancel THEN "pull_request" ELSE "push" IN
         /\ notifyPRCancel => numbering = [i \in RunIds |-> i]
         /\ \E oddRun \in OddRuns(odd, numbering[odd], event) :
              runs = [id \in RunIds |->
                        LET runItem == IF id = odd THEN oddRun ELSE BaseRun(id, numbering[id], event) IN
                            IF allCompleted THEN [runItem EXCEPT !.status = "completed"] ELSE runItem]
    \* the invoking run is running
    /\ selfRunId \in RunIds => runs[selfRunId].status = "in_progress"
    /\ eventName = IF selfRunId \in RunIds THEN runs[selfRunId].event ELSE "workflow_run"
    /\ pc = "start"
    /\ headRepo = Undefined
    /\ headBranch = Undefined
    /\ sourceEventName = Undefined
    /\ workflowRuns = <<>>
    /\ evaluated = 0
    /\ idsToCancel = <<>>
    /\ pullRequestToNotify = <<>>
    /\ sortedIdsToCancel = <<>>
    /\ cancelCalls = <<>>
    /\ cancelled = {}
    /\ comments = <<>>
    /\ calls = {}
    /\ cancelledRuns = <<>>
    /\ failure = NoFailure
    /\ evalArgs = [runItem |-> BaseRun(1, 1, "push"), headRepo |-> Undefined, cancelMode |-> DUPLICATES, sourceRunId |-> 1, jobNamesRegexps |-> NoRegexps, failAt |-> 0]
    /\ evalResult = Returned(FALSE)
    /\ invocation = 1
    /\ workflowId = ""
    /\ failFastJobNames = <<>>
    /\ headsToRunIdMap = <<>>
    /\ outstanding = {}
    /\ ref = BranchRef("b1")
    /\ matched = FALSE
    /\ workflow = ""
    /\ count = 0
    /\ heads = {}

Init == Start(FALSE)

\* run().catch(e => core.setFailed(e.message))
SetFailed(message) ==
    /\ pc' = "failed"
    /\ failure' = message

RequestFailed == "request failed"
\* e.message of a failed pulls.list request of findPullRequest
LookupFailed == "pulls.list failed"
\* e.message of a failed issues.createComment request
CommentFailed == "issues.createComment failed"
JobNamesNotAllowed == "You cannot specify jobNames on this cancelMode."

SourceIdRequired == "You cannot run workflow_run in this cancelMode without sourceId input."

\* run without the check of the event workflow_run
WorkflowRunWithoutSource_unchecked == FALSE

\* eventName === 'workflow_run' && sourceRunId === selfRunId, with
\* cancelMode === CancelMode.DUPLICATES
WorkflowRunWithoutSource == eventName = "workflow_run" /\ sourceRunId = selfRunId /\ cancelMode = DUPLICATES

\* run(), from its start to the end of the checks of the inputs: the
\* workflow id of the source run is fetched, then the inputs are checked
GetWorkflowIdAndCheck ==
    /\ pc = "start"
    /\ calls' = calls \cup {GetWorkflowRun}
    /\ \/ SetFailed(RequestFailed)
       \/ SetFailed("Could not resolve workflow")
       \/ /\ Len(jobNameRegexps) > 0
          /\ cancelMode \in {DUPLICATES, SELF}
          /\ SetFailed(JobNamesNotAllowed)
       \/ /\ ~(Len(jobNameRegexps) > 0 /\ cancelMode \in {DUPLICATES, SELF})
          /\ WorkflowRunWithoutSource
          /\ SetFailed(SourceIdRequired)
       \/ /\ ~(Len(jobNameRegexps) > 0 /\ cancelMode \in {DUPLICATES, SELF})
          /\ ~WorkflowRunWithoutSource
          /\ pc' = "origin"
          /\ UNCHANGED failure
    /\ UNCHANGED <<configVars, otherVars, evalVars, headRepo, headBranch, sourceEventName, workflowRuns, evaluated, idsToCancel, pullRequestToNotify, sortedIdsToCancel, cancelCalls, cancelled, comments, cancelledRuns>>

\* getOrigin and the comment that announces the start: the source run is
\* fetched; for a pull_request run its pull request is looked up, and when
\* it is found and the input notifyPRMessageStart is given a comment is
\* posted.  Each of the three requests may fail.
GetOrigin ==
    /\ pc = "origin"
    /\ LET sourceRun == runs[sourceRunId]
           isPR == sourceRun.event = "pull_request" IN
       \/ /\ calls' = calls \cup {GetWorkflowRun}
          /\ SetFailed(RequestFailed)
          /\ UNCHANGED <<headRepo, headBranch, sourceEventName>>
       \/ /\ isPR
          /\ calls' = calls \cup {GetWorkflowRun, PullsList}
          /\ SetFailed(RequestFailed)
          /\ UNCHANGED <<headRepo, headBranch, sourceEventName>>
       \/ /\ isPR
          /\ calls' = calls \cup {GetWorkflowRun, PullsList, CreateComment}
          /\ SetFailed(RequestFailed)
          /\ UNCHANGED <<headRepo, headBranch, sourceEventName>>
       \/ /\ \E found \in BOOLEAN, notifyPRMessageStart \in BOOLEAN :
                calls' = calls \cup {GetWorkflowRun}
                         \cup (IF isPR THEN {PullsList} ELSE {})
                         \cup (IF isPR /\ found /\ notifyPRMessageStart THEN {CreateComment} ELSE {})
          /\ headRepo' = sourceRun.head_repository.full_name
          /\ headBranch' = sourceRun.head_branch
          /\ sourceEventName' = sourceRun.event
          /\ pc' = "list"
          /\ UNCHANGED failure
    /\ UNCHANGED <<configVars, otherVars, evalVars, workflowRuns, evaluated, idsToCancel, pullRequestToNotify, sortedIdsToCancel, cancelCalls, cancelled, comments, cancelledRuns>>

\* the shapes of the pages of the two listings: every page a bare array,
\* every page an object, or the first page an array and the later ones
\* objects; or bare arrays with one page malformed or failing
MaxPages == (MaxRunId + PageSize - 1) \div PageSize
AllArrays == [s \in 1..Len(statusValues) |-> [p \in 1..MaxPages |-> "array"]]
GoodShapes == {AllArrays, [s \in 1..Len(statusValues) |-> [p \in 1..MaxPages |-> "object"]], [s \in 1..Len(statusValues) |-> [p \in 1..MaxPages |-> IF p = 1 THEN "array" ELSE "object"]]}
ListingShapes == GoodShapes \cup {[AllArrays EXCEPT ![s][p] = bad] : s \in 1..Len(statusValues), p \in 1..MaxPages, bad \in {"other", "error"}}

\* findAndCancelRuns, first part: the index is built from the listings; the
\* first request of the listing fails, or the pages come in one of the
\* ListingShapes
GetWorkflowRuns ==
    /\ pc = "list"
    /\ calls' = calls \cup {ListWorkflowRuns}
    /\ \/ /\ SetFailed(RequestFailed)
          /\ UNCHANGED workflowRuns
       \/ \E shapes \in ListingShapes, statusFiltered \in BOOLEAN :
            LET got == getWorkflowRuns(shapes, statusFiltered) IN
                IF got.threw
                THEN /\ SetFailed(RequestFailed)
                     /\ UNCHANGED workflowRuns
                ELSE /\ workflowRuns' = got.value
                     /\ pc' = "evaluate"
                     /\ UNCHANGED failure
    /\ UNCHANGED <<configVars, otherVars, evalVars, headRepo, headBranch, sourceEventName, evaluated, idsToCancel, pullRequestToNotify, sortedIdsToCancel, cancelCalls, cancelled, comments, cancelledRuns>>

\* the pull request of a run: found by its head
PullRequestOf(runItem) == <<runItem.head_repository.full_name, runItem.head_branch>>

\* one iteration of 'for (const [key, runItem] of workflowRuns)'
EvaluateRun ==
    /\ pc = "evaluate"
    /\ evaluated < Cardinality(DOMAIN workflowRuns)
    /\ LET key == KeysAscending(DOMAIN workflowRuns)[evaluated + 1]
           runItem == workflowRuns[key]
           inspects == ~IsCompleted(runItem) /\ IsCancellableEvent(runItem) /\ cancelMode \in {FAILED_JOBS, NAMED_JOBS} IN
       \E failAt \in 0..Len(runItem.jobs) :
         LET decision == shouldBeCancelled(runItem, headRepo, cancelMode, sourceRunId, jobNameRegexps, IF inspects THEN failAt ELSE 0)
             lookup == ~decision.threw /\ decision.value /\ notifyPRCancel /\ runItem.event = "pull_request" IN
         /\ calls' = calls \cup (IF inspects THEN {ListJobsForWorkflowRun} ELSE {}) \cup (IF lookup THEN {PullsList} ELSE {})
         /\ \/ /\ decision.threw
               /\ SetFailed(RequestFailed)
               /\ UNCHANGED <<evaluated, idsToCancel, pullRequestToNotify>>
            \/ /\ lookup
               /\ SetFailed(LookupFailed)
               /\ UNCHANGED <<evaluated, idsToCancel, pullRequestToNotify>>
            \/ /\ ~decision.threw
               /\ evaluated' = evaluated + 1
               /\ idsToCancel' = IF decision.value THEN Append(idsToCancel, runItem.id) ELSE idsToCancel
               /\ \E found \in BOOLEAN :
                    pullRequestToNotify' = IF lookup /\ found THEN Append(pullRequestToNotify, PullRequestOf(runItem)) ELSE pullRequestToNotify
               /\ UNCHANGED <<pc, failure>>
    /\ UNCHANGED <<configVars, otherVars, evalVars, headRepo, headBranch, sourceEventName, workflowRuns, sortedIdsToCancel, cancelCalls, cancelled, comments, cancelledRuns>>

\* the loop over the index started again when it ends
SortIdsToCancel_restart ==
    /\ pc = "evaluate"
    /\ evaluated = Cardinality(DOMAIN workflowRuns)
    /\ evaluated' = 0
    /\ idsToCancel' = <<>>
    /\ pullRequestToNotify' = <<>>
    /\ UNCHANGED <<configVars, otherVars, evalVars, headRepo, headBranch, sourceEventName, workflowRuns, sortedIdsToCancel, cancelCalls, cancelled, comments, calls, cancelledRuns, pc, failure>>

\* the sort and the cancel loop entered from inside the loop over the index,
\* as soon as one run has been evaluated
SortIdsToCancel_early ==
    /\ pc = "evaluate"
    /\ evaluated >= 1
    /\ sortedIdsToCancel' = SortAscending(idsToCancel)
    /\ pc' = IF Len(SortAscending(idsToCancel)) > 0 THEN "cancel" ELSE "return"
    /\ UNCHANGED <<configVars, otherVars, evalVars, headRepo, headBranch, sourceEventName, workflowRuns, evaluated, idsToCancel, pullRequestToNotify, cancelCalls, cancelled, comments, calls, cancelledRuns, failure>>

\* after the loop: the candidates are sorted
SortIdsToCancel ==
    /\ pc = "evaluate"
    /\ evaluated = Cardinality(DOMAIN workflowRuns)
    /\ sortedIdsToCancel' = SortAscending(idsToCancel)
    /\ pc' = IF Len(SortAscending(idsToCancel)) > 0 THEN "cancel" ELSE "return"
    /\ UNCHANGED <<configVars, otherVars, evalVars, headRepo, headBranch, sourceEventName, workflowRuns, evaluated, idsToCancel, pullRequestToNotify, cancelCalls, cancelled, comments, calls, cancelledRuns, failure>>

\* cancelRun without its try/catch: the error of the request propagates
cancelRun_propagates(runId, succeeds) ==
    /\ cancelCalls' = Append(cancelCalls, runId)
    /\ calls' = calls \cup {CancelWorkflowRun}
    /\ cancelled' = IF succeeds THEN cancelled \cup {runId} ELSE cancelled
    /\ failure' = IF succeeds THEN failure ELSE RequestFailed

\* cancelRun: the request succeeds, or fails and the error is caught and
\* logged as a warning
cancelRun(runId, succeeds) ==
    /\ cancelCalls' = Append(cancelCalls, runId)
    /\ calls' = calls \cup {CancelWorkflowRun}
    /\ cancelled' = IF succeeds THEN cancelled \cup {runId} ELSE cancelled
    /\ UNCHANGED failure

\* one iteration of 'for (const runId of sortedIdsToCancel)'
CancelNext ==
    /\ pc = "cancel"
    /\ Len(cancelCalls) < Len(sortedIdsToCancel)
    /\ \E succeeds \in BOOLEAN : cancelRun(sortedIdsToCancel[Len(cancelCalls) + 1], succeeds)
    /\ pc' = IF failure' # NoFailure THEN "failed"
             ELSE IF Len(cancelCalls) + 1 < Len(sortedIdsToCancel) THEN "cancel" ELSE "notify"
    /\ UNCHANGED <<configVars, otherVars, evalVars, headRepo, headBranch, sourceEventName, workflowRuns, evaluated, idsToCancel, pullRequestToNotify, sortedIdsToCancel, comments, cancelledRuns>>

\* one iteration of 'for (const pullRequestNumber of pullRequestToNotify)'
NotifyNext ==
    /\ pc = "notify"
    /\ Len(comments) < Len(pullRequestToNotify)
    /\ calls' = calls \cup {CreateComment}
    /\ \/ /\ SetFailed(CommentFailed)
          /\ UNCHANGED comments
       \/ /\ comments' = Append(comments, pullRequestToNotify[Len(comments) + 1])
          /\ UNCHANGED <<pc, failure>>
    /\ UNCHANGED <<configVars, otherVars, evalVars, headRepo, headBranch, sourceEventName, workflowRuns, evaluated, idsToCancel, pullRequestToNotify, sortedIdsToCancel, cancelCalls, cancelled, cancelledRuns>>

\* findAndCancelRuns returns sortedIdsToCancel; run() sets 'cancelledRuns'
ReturnAndSetOutput ==
    /\ \/ pc = "return"
       \/ pc = "notify" /\ Len(comments) = Len(pullRequestToNotify)
    /\ cancelledRuns' = sortedIdsToCancel
    /\ pc' = "done"
    /\ UNCHANGED <<configVars, otherVars, evalVars, headRepo, headBranch, sourceEventName, workflowRuns, evaluated, idsToCancel, pullRequestToNotify, sortedIdsToCancel, cancelCalls, cancelled, comments, calls, failure>>

Next ==
    \/ GetWorkflowIdAndCheck
    \/ GetOrigin
    \/ GetWorkflowRuns
    \/ EvaluateRun
    \/ SortIdsToCancel
    \/ CancelNext
    \/ NotifyNext
    \/ ReturnAndSetOutput

Spec == Init /\ [][Next]_vars

\* Every request of the invocation returns or fails, and the listings have
\* finitely many pages: the step the invocation stands at is eventually
\* taken.
\* The invocations checked for termination: the mode is one without and
\* one with the inspection of jobs, the source run is the invoking run, the
\* newest of the repository, and the runs are numbered in order.
InitLive ==
    /\ Init
    /\ cancelMode \in {DUPLICATES, FAILED_JOBS}
    /\ sourceRunId = MaxRunId
    /\ selfRunId = sourceRunId
    /\ \A id \in RunIds : runs[id].run_number = id

SpecLive == InitLive /\ [][Next]_vars /\ WF_vars(Next)

-----------------------------------------------------------------------------
(* The action invoked again (SpecRerun) *)

MaxInvocations == 2

\* The repository of Init with every run completed and the action invoked
\* from another workflow; or a repository of Init with pull_request runs in
\* progress, the newest of them the source run, under the Duplicates policy.
InitRerun ==
    \/ Start(TRUE)
    \/ /\ Start(FALSE)
       /\ cancelMode = DUPLICATES /\ notifyPRCancel /\ jobNameRegexps = NoRegexps
       /\ sourceRunId = MaxRunId

\* The invocation has ended and the action is invoked again with the same
\* inputs: a new process, which keeps nothing of the previous one.  The
\* runs whose cancel call succeeded are completed by now.
RunAgain ==
    /\ pc \in {"done", "failed"}
    /\ invocation < MaxInvocations
    /\ invocation' = invocation + 1
    /\ runs' = [id \in DOMAIN runs |-> IF id \in cancelled THEN [runs[id] EXCEPT !.status = "completed"] ELSE runs[id]]
    /\ pc' = "start"
    /\ headRepo' = Undefined
    /\ headBranch' = Undefined
    /\ sourceEventName' = Undefined
    /\ workflowRuns' = <<>>
    /\ evaluated' = 0
    /\ idsToCancel' = <<>>
    /\ pullRequestToNotify' = <<>>
    /\ sortedIdsToCancel' = <<>>
    /\ cancelCalls' = <<>>
    /\ cancelled' = {}
    /\ comments' = <<>>
    /\ calls' = {}
    /\ cancelledRuns' = <<>>
    /\ failure' = NoFailure
    /\ UNCHANGED <<cancelMode, selfRunId, sourceRunId, eventName, notifyPRCancel, jobNameRegexps, evalVars, workflowId, failFastJobNames, headsToRunIdMap, outstanding, pushVars, dupVars>>

NextRerun ==
    \/ Next
    \/ RunAgain

SpecRerun == InitRerun /\ [][NextRerun]_vars

-----------------------------------------------------------------------------
(* The scheduled sweep of a whole workflow (SpecSweep): the variant of the *)
(* action that is driven by the triggering event                           *)

\* core.getInput('workflow'): not given, or the workflow to sweep
WorkflowInputs == {"", "ci.yml"}

\* the test of the input left out
WorkflowGiven_always(workflowId_) == TRUE

\* workflowId.length > 0
WorkflowGiven(workflowId_) == workflowId_ # ""

WorkflowRequired == "Workflow must be specified for schedule event type"
SyntaxError == "Unexpected end of JSON input"
TypeError == "Cannot read property 'some' of null"

\* core.getInput('failFastJobNames') before it is parsed: not given (the
\* empty string), null, an empty array, an array of one regexp
Input(text) == [kind |-> "input", text |-> text]
FailFastInputs == {Input(""), Input("null"), Input("[]"), Input("[\"^Static checks$\"]")}

\* JSON.parse: a thrown SyntaxError, null, or the array
Null == [kind |-> "null", items |-> <<>>]
Array(items) == [kind |-> "array", items |-> items]
Unparsable == [kind |-> "SyntaxError", items |-> <<>>]
JSONParse(input) ==
    CASE input.text = "" -> Unparsable
      [] input.text = "null" -> Null
      [] input.text = "[]" -> Array(<<>>)
      [] OTHER -> Array(RegexpsStatic)

createListRunsQueryForAllRuns(status) == [status |-> status, branch |-> Undefined, event |-> Undefined, run_id |-> 0]

\* getSortedWorkflowRuns: the loop over the two statuses, from status s on
RECURSIVE addSortedStatuses(_, _, _, _)
addSortedStatuses(map, shapes, s, statusFiltered) ==
    IF s > Len(statusValues) THEN [threw |-> FALSE, value |-> map]
    ELSE LET pages == Paginate(NewestFirst(ListedRuns(createListRunsQueryForAllRuns(statusValues[s]), statusFiltered)))
             got == addPages(map, pages, shapes[s], 1) IN
         IF got.threw THEN got ELSE addSortedStatuses(got.value, shapes, s + 1, statusFiltered)

getSortedWorkflowRuns(shapes, statusFiltered) == addSortedStatuses(<<>>, shapes, 1, statusFiltered)

\* the walk through the TreeMap without backward(): ascending
KeysBackward_forward(keys) == KeysAscending(keys)

\* the keys of a TreeMap as backward() iterates them (descending)
RECURSIVE KeysBackward(_)
KeysBackward(keys) ==
    IF keys = {} THEN <<>>
    ELSE LET m == CHOOSE x \in keys : \A y \in keys : y <= x IN
         <<m>> \o KeysBackward(keys \ {m})

\* a sweep that skips no run
shouldRunBeSkipped_never(runItem) == FALSE

\* a sweep that skips the completed runs only
shouldRunBeSkipped_anyEvent(runItem) == runItem.status = "completed"

shouldRunBeSkipped(runItem) ==
    IF runItem.status = "completed" THEN TRUE
    ELSE IF runItem.event \notin {"push", "pull_request"} THEN TRUE
    ELSE FALSE

\* `${runItem.head_repository.full_name}/${runItem.head_branch}`
HeadOf(runItem) == <<runItem.head_repository.full_name, "/", runItem.head_branch>>

\* failFastJobNames.some(jobNameRegexp => job.name.match(jobNameRegexp));
\* on null the call throws a TypeError
SomeMatch(name, names) == \E k \in DOMAIN names.items : Match(name, names.items[k])

\* cancelOnFailFastJobsFailed, the scan of one page of jobs from job k on:
\* "cancel" at the first failed job with a matching name, "TypeError" at a
\* failed job when the names are null, "none" at the end of the page
RECURSIVE failFastJobs(_, _, _)
failFastJobs(page, names, k) ==
    IF k > Len(page) THEN "none"
    ELSE IF page[k].conclusion = "failure"
         THEN IF names.kind = "null" THEN "TypeError"
              ELSE IF SomeMatch(page[k].name, names) THEN "cancel"
              ELSE failFastJobs(page, names, k + 1)
    ELSE failFastJobs(page, names, k + 1)

\* a scan that reads the first page of jobs only
failFastPages_firstPageOnly(pages, names, failAt, p) ==
    IF p > Len(pages) THEN "none"
    ELSE IF failAt = p THEN "RequestError"
    ELSE failFastJobs(pages[p], names, 1)

\* the pages of jobs from page p on; the fetch of page failAt throws
RECURSIVE failFastPages(_, _, _, _)
failFastPages(pages, names, failAt, p) ==
    IF p > Len(pages) THEN "none"
    ELSE IF failAt = p THEN "RequestError"
    ELSE LET found == failFastJobs(pages[p], names, 1) IN
         IF found # "none" THEN found
         ELSE failFastPages(pages, names, failAt, p + 1)

\* the runs of the swept workflow: active push runs of head r1/b1 with
\* no failed job, with a failed job on the first and on the second page of
\* jobs; a pull_request run of another head; a completed run; a run
\* triggered by an event that is not swept
SweepProfiles == {
    <<"in_progress", "push", "r1", "b1", JobsDocsOnly>>,
    <<"in_progress", "push", "r1", "b1", JobsStaticFailed>>,
    <<"queued", "push", "r1", "b1", JobsFailedLater>>,
    <<"in_progress", "pull_request", "r2", "b1", JobsStaticFailed>>,
    <<"completed", "push", "r1", "b1", JobsDocsOnly>>,
    <<"in_progress", "workflow_run", "r1", "b1", JobsDocsOnly>>}

\* A scheduled run of a clean-up workflow: it sweeps the workflow named by
\* the input 'workflow', whose runs are numbered in any of the Numberings.
InitSweep ==
    /\ eventName = "schedule"
    /\ workflowId \in WorkflowInputs
    /\ failFastJobNames \in FailFastInputs
    /\ \E numbering \in Numberings, profile \in [RunIds -> SweepProfiles] :
         runs = [id \in RunIds |-> RunItem(id, numbering[id], profile[id][1], profile[id][2], profile[id][3], profile[id][4], profile[id][5])]
    /\ selfRunId = ExternalRunId
    /\ sourceRunId = ExternalRunId
    /\ cancelMode = DUPLICATES
    /\ notifyPRCancel = FALSE
    /\ jobNameRegexps = NoRegexps
    /\ pc = "start"
    /\ headRepo = Undefined
    /\ headBranch = Undefined
    /\ sourceEventName = Undefined
    /\ workflowRuns = <<>>
    /\ evaluated = 0
    /\ idsToCancel = <<>>
    /\ pullRequestToNotify = <<>>
    /\ sortedIdsToCancel = <<>>
    /\ cancelCalls = <<>>
    /\ cancelled = {}
    /\ comments = <<>>
    /\ calls = {}
    /\ cancelledRuns = <<>>
    /\ failure = NoFailure
    /\ evalArgs = [runItem |-> BaseRun(1, 1, "push"), headRepo |-> Undefined, cancelMode |-> DUPLICATES, sourceRunId |-> 1, jobNamesRegexps |-> NoRegexps, failAt |-> 0]
    /\ evalResult = Returned(FALSE)
    /\ invocation = 1
    /\ headsToRunIdMap = <<>>
    /\ outstanding = {}
    /\ ref = BranchRef("b1")
    /\ matched = FALSE
    /\ workflow = ""
    /\ count = 0
    /\ heads = {}

\* what the sweep never touches
sweepRest == <<cancelMode, selfRunId, sourceRunId, eventName, notifyPRCancel, jobNameRegexps, runs, workflowId, headRepo, headBranch, sourceEventName, idsToCancel, pullRequestToNotify, sortedIdsToCancel, comments, cancelledRuns, evalVars, invocation, outstanding, pushVars, dupVars>>

\* run, for the event 'schedule': runScheduledRun up to the sweep
RunScheduledRun ==
    /\ pc = "start"
    /\ eventName = "schedule"
    /\ IF ~WorkflowGiven(workflowId)
       THEN /\ SetFailed(WorkflowRequired)
            /\ UNCHANGED failFastJobNames
       ELSE LET parsed == JSONParse(failFastJobNames) IN
            IF parsed.kind = "SyntaxError"
            THEN /\ SetFailed(SyntaxError)
                 /\ UNCHANGED failFastJobNames
            ELSE /\ failFastJobNames' = parsed
                 /\ pc' = "list"
                 /\ UNCHANGED failure
    /\ UNCHANGED <<sweepRest, workflowRuns, evaluated, headsToRunIdMap, cancelCalls, cancelled, calls>>

\* findAndCancelPastRunsForSchedule, first part: the index is built
GetSortedWorkflowRuns ==
    /\ pc = "list"
    /\ calls' = calls \cup {ListWorkflowRuns}
    /\ \E shapes \in ListingShapes, statusFiltered \in BOOLEAN :
        LET got == getSortedWorkflowRuns(shapes, statusFiltered) IN
            IF got.threw
            THEN /\ SetFailed(RequestFailed)
                 /\ UNCHANGED workflowRuns
            ELSE /\ workflowRuns' = got.value
                 /\ pc' = "sweep"
                 /\ UNCHANGED failure
    /\ UNCHANGED <<sweepRest, failFastJobNames, evaluated, headsToRunIdMap, cancelCalls, cancelled>>

\* the run the sweep is at
SweptRunItem == workflowRuns[KeysBackward(DOMAIN workflowRuns)[evaluated + 1]]

\* the sweep's call of cancelRun (part_001): the request is issued; it
\* succeeds, or fails and the error is caught and logged
SweepCancel(runId, others) ==
    /\ cancelCalls' = Append(cancelCalls, runId)
    /\ \E succeeds \in BOOLEAN : cancelled' = IF succeeds THEN cancelled \cup {runId} ELSE cancelled
    /\ calls' = calls \cup others \cup {CancelWorkflowRun}

\* one iteration of 'for (const [key, runItem] of sortedWorkflowRuns.backward())'
SweepRun ==
    /\ pc = "sweep"
    /\ evaluated < Cardinality(DOMAIN workflowRuns)
    /\ LET runItem == SweptRunItem
           head == HeadOf(runItem) IN
       IF shouldRunBeSkipped(runItem)
       THEN /\ evaluated' = evaluated + 1
            /\ UNCHANGED <<pc, failure, headsToRunIdMap, cancelCalls, cancelled, calls>>
       ELSE IF head \notin DOMAIN headsToRunIdMap
       THEN /\ headsToRunIdMap' = TreeMapSet(headsToRunIdMap, head, runItem.id)
            /\ IF failFastJobNames.kind # "undefined"
               THEN \E failAt \in 0..Len(runItem.jobs) :
                     LET found == failFastPages(runItem.jobs, failFastJobNames, failAt, 1) IN
                        IF found = "RequestError" \/ found = "TypeError"
                        THEN /\ SetFailed(IF found = "TypeError" THEN TypeError ELSE RequestFailed)
                             /\ calls' = calls \cup {ListJobsForWorkflowRun}
                             /\ UNCHANGED <<evaluated, cancelCalls, cancelled>>
                        ELSE /\ evaluated' = evaluated + 1
                             /\ IF found = "cancel"
                                THEN SweepCancel(runItem.id, {ListJobsForWorkflowRun})
                                ELSE /\ calls' = calls \cup {ListJobsForWorkflowRun}
                                     /\ UNCHANGED <<cancelCalls, cancelled>>
                             /\ UNCHANGED <<pc, failure>>
               ELSE /\ evaluated' = evaluated + 1
                    /\ UNCHANGED <<pc, failure, cancelCalls, cancelled, calls>>
       ELSE /\ evaluated' = evaluated + 1
            /\ SweepCancel(runItem.id, {})
            /\ UNCHANGED <<pc, failure, headsToRunIdMap>>
    /\ UNCHANGED <<sweepRest, failFastJobNames, workflowRuns>>

\* the walk is over: findAndCancelPastRunsForSchedule and run return
SweepFinish ==
    /\ pc = "sweep"
    /\ evaluated = Cardinality(DOMAIN workflowRuns)
    /\ pc' = "done"
    /\ UNCHANGED <<sweepRest, failFastJobNames, workflowRuns, evaluated, headsToRunIdMap, cancelCalls, cancelled, calls, failure>>

NextSweep ==
    \/ RunScheduledRun
    \/ GetSortedWorkflowRuns
    \/ SweepRun
    \/ SweepFinish

SpecSweep == InitSweep /\ [][NextSweep]_vars

-----------------------------------------------------------------------------
(* The original variant of the action (SpecPush): the runs of the          *)
(* repository for the branch are paged through, and every run listed after *)
(* the invoking run that belongs to its workflow and is not completed is   *)
(* cancelled, without waiting for the cancellation to settle               *)

Workflows == {"workflows/1", "workflows/2"}

\* a run object of listRepoWorkflowRuns
RepoRunItem(id, status, workflowUrl, branch) == [id |-> id, run_number |-> id, status |-> status, event |-> "push", workflow_url |-> workflowUrl, head_branch |-> branch]

RepoRunItems(id) == {RepoRunItem(id, status, workflowUrl, branch) : status \in {"in_progress", "completed"}, workflowUrl \in Workflows, branch \in Branches}

\* GITHUB_REF: a branch, a tag, something else
Refs == {BranchRef(b) : b \in Branches} \cup {Ref(tagPrefix, "v1"), Ref("refs/pull/", "1/merge")}

\* a test of the prefix that every ref passes
StartsWith_anyRef(ref_, prefix) == TRUE

\* branch.startsWith(prefix)
StartsWith(ref_, prefix) == ref_.prefix = prefix

\* branch.replace(branchPrefix, '')
WithoutPrefix(ref_) == ref_.name

UnexpectedRef == "was not an expected branch ref (refs/heads/)."
NotIterableError == "elements is not iterable"

\* The invoking run is an in_progress run of the repository, or a run the
\* listing does not hold; the event is push or another; the ref is the
\* branch of the invoking run, a tag or something else.
InitPush ==
    /\ selfRunId \in RunIds \cup {ExternalRunId}
    /\ runs \in {t \in [RunIds -> UNION {RepoRunItems(id) : id \in RunIds}] : \A id \in RunIds : t[id].id = id}
    /\ selfRunId \in RunIds => runs[selfRunId].status = "in_progress"
    /\ eventName \in {"push", "pull_request"}
    /\ ref \in Refs
    /\ (selfRunId \in RunIds /\ StartsWith(ref, branchPrefix)) => WithoutPrefix(ref) = runs[selfRunId].head_branch
    /\ sourceRunId = selfRunId
    /\ cancelMode = DUPLICATES
    /\ notifyPRCancel = FALSE
    /\ jobNameRegexps = NoRegexps
    /\ pc = "start"
    /\ headRepo = Undefined
    /\ headBranch = Undefined
    /\ sourceEventName = Undefined
    /\ workflowRuns = <<>>
    /\ evaluated = 0
    /\ idsToCancel = <<>>
    /\ pullRequestToNotify = <<>>
    /\ sortedIdsToCancel = <<>>
    /\ cancelCalls = <<>>
    /\ cancelled = {}
    /\ comments = <<>>
    /\ calls = {}
    /\ cancelledRuns = <<>>
    /\ failure = NoFailure
    /\ evalArgs = [runItem |-> BaseRun(1, 1, "push"), headRepo |-> Undefined, cancelMode |-> DUPLICATES, sourceRunId |-> 1, jobNamesRegexps |-> NoRegexps, failAt |-> 0]
    /\ evalResult = Returned(FALSE)
    /\ invocation = 1
    /\ workflowId = ""
    /\ failFastJobNames = <<>>
    /\ headsToRunIdMap = <<>>
    /\ outstanding = {}
    /\ matched = FALSE
    /\ workflow = ""
    /\ count = 0
    /\ heads = {}

\* what the original variant never touches
pushRest == <<cancelMode, selfRunId, sourceRunId, eventName, notifyPRCancel, jobNameRegexps, runs, ref, headRepo, sourceEventName, workflowRuns, evaluated, idsToCancel, pullRequestToNotify, sortedIdsToCancel, comments, cancelledRuns, evalVars, invocation, workflowId, failFastJobNames, headsToRunIdMap, dupVars>>

\* run, up to the listing: the event and the ref are checked
PushStart ==
    /\ pc = "start"
    /\ IF eventName # "push"
       THEN /\ pc' = "done"
            /\ UNCHANGED <<failure, headBranch>>
       ELSE IF ~StartsWith(ref, branchPrefix)
       THEN IF StartsWith(ref, tagPrefix)
            THEN /\ pc' = "done"
                 /\ UNCHANGED <<failure, headBranch>>
            ELSE /\ SetFailed(UnexpectedRef)
                 /\ UNCHANGED headBranch
       ELSE /\ headBranch' = WithoutPrefix(ref)
            /\ pc' = "page"
            /\ UNCHANGED failure
    /\ UNCHANGED <<pushRest, matched, workflow, count, cancelCalls, cancelled, calls, outstanding>>

\* the pages of listRepoWorkflowRuns({branch, event: 'push'})
RepoPages == Paginate(NewestFirst(ListedRuns([status |-> Undefined, branch |-> headBranch, event |-> "push", run_id |-> 0], FALSE)))

\* ++count < 2 ? item.data : item.data.workflow_runs
CountedElements(data, count_) ==
    IF count_ < 2
    THEN IF data.shape = "array" THEN Iterable(data.array) ELSE NotIterable
    ELSE IF data.shape = "object" THEN Iterable(data.workflow_runs) ELSE NotIterable

\* the loop over the elements of one page without the comparison of the
\* workflows
RECURSIVE forElements_anyWorkflow(_, _, _)
forElements_anyWorkflow(elements, k, st) ==
    IF k > Len(elements) THEN st
    ELSE LET element == elements[k] IN
        IF ~st.matched
        THEN forElements_anyWorkflow(elements, k + 1, IF element.id = selfRunId THEN [st EXCEPT !.matched = TRUE, !.workflow = element.workflow_url] ELSE st)
        ELSE IF element.status # "completed"
        THEN forElements_anyWorkflow(elements, k + 1, [st EXCEPT !.issued = Append(@, element.id)])
        ELSE forElements_anyWorkflow(elements, k + 1, st)

\* the loop over the elements of one page, from element k on; issued are
\* the runs cancelRun was called for
RECURSIVE forElements(_, _, _)
forElements(elements, k, st) ==
    IF k > Len(elements) THEN st
    ELSE LET element == elements[k] IN
        IF ~st.matched
        THEN forElements(elements, k + 1, IF element.id = selfRunId THEN [st EXCEPT !.matched = TRUE, !.workflow = element.workflow_url] ELSE st)
        ELSE IF st.workflow = element.workflow_url /\ element.status # "completed"
        THEN forElements(elements, k + 1, [st EXCEPT !.issued = Append(@, element.id)])
        ELSE forElements(elements, k + 1, st)

\* one iteration of 'for await (const item of octokit.paginate.iterator(listRuns))':
\* the page is fetched and its elements are gone through; cancelRun is
\* called for the elements to cancel and its promise is not awaited, so
\* the requests are issued and left outstanding
PushPage ==
    /\ pc = "page"
    /\ count < Len(RepoPages)
    /\ \E shape \in {"array", "object", "error"} :
        LET elements == CountedElements(PageData(shape, RepoPages[count + 1]), count + 1) IN
            IF shape = "error" \/ ~elements.iterable
            THEN /\ SetFailed(IF shape = "error" THEN RequestFailed ELSE NotIterableError)
                 /\ count' = IF shape = "error" THEN count ELSE count + 1
                 /\ UNCHANGED <<matched, workflow, cancelCalls, outstanding>>
            ELSE LET st == forElements(elements.items, 1, [matched |-> matched, workflow |-> workflow, issued |-> <<>>]) IN
                 /\ count' = count + 1
                 /\ matched' = st.matched
                 /\ workflow' = st.workflow
                 /\ cancelCalls' = cancelCalls \o st.issued
                 /\ outstanding' = outstanding \cup Range(st.issued)
                 /\ UNCHANGED <<pc, failure>>
    /\ calls' = calls \cup {ListWorkflowRuns} \cup (IF cancelCalls' # cancelCalls THEN {CancelWorkflowRun} ELSE {})
    /\ UNCHANGED <<pushRest, headBranch, cancelled>>

\* the listing is exhausted: run returns
PushFinish ==
    /\ pc = "page"
    /\ count = Len(RepoPages)
    /\ pc' = "done"
    /\ UNCHANGED <<pushRest, headBranch, matched, workflow, count, cancelCalls, cancelled, calls, outstanding, failure>>

\* a cancelWorkflowRun request settles: it succeeded, or it failed and
\* cancelRun logs the error
CancelSettles ==
    /\ \E runId \in outstanding, succeeds \in BOOLEAN :
        /\ outstanding' = outstanding \ {runId}
        /\ cancelled' = IF succeeds THEN cancelled \cup {runId} ELSE cancelled
    /\ UNCHANGED <<pushRest, headBranch, matched, workflow, count, cancelCalls, calls, pc, failure>>

NextPush ==
    \/ PushStart
    \/ PushPage
    \/ PushFinish
    \/ CancelSettles

SpecPush == InitPush /\ [][NextPush]_vars

-----------------------------------------------------------------------------
(* The second variant of main.ts (SpecDuplicates): on 'schedule' every run  *)
(* of the workflow named by the input is a candidate; on push and          *)
(* pull_request the runs of the branch and event of the invoking run are   *)
(* walked from the invoking run backward.  One run per head is kept.       *)

\* the runs of the workflow: active runs of the head r1/b1 by push and by
\* pull_request, a pull_request run of the branch b1 of a fork, a completed
\* run, a run of another branch, a run of an event that is not considered
DuplicateProfiles == {
    <<"in_progress", "push", "r1", "b1">>,
    <<"in_progress", "pull_request", "r1", "b1">>,
    <<"queued", "pull_request", "r2", "b1">>,
    <<"completed", "push", "r1", "b1">>,
    <<"in_progress", "push", "r1", "b2">>,
    <<"in_progress", "workflow_run", "r1", "b1">>}

\* GITHUB_HEAD_REF of a pull_request run: the bare name of the branch
HeadRef(name) == Ref("", name)

\* The event is schedule, push, pull_request or another.  On schedule the
\* invoking run belongs to another workflow; on push and pull_request it is
\* an in_progress run of the event on the branch of the ref, or a run the
\* listing does not hold.
InitDuplicates ==
    /\ eventName \in {"schedule", "push", "pull_request", "workflow_dispatch"}
    /\ workflowId \in (IF eventName = "schedule" THEN WorkflowInputs ELSE {""})
    /\ \E numbering \in Numberings, profile \in [RunIds -> DuplicateProfiles] :
         runs = [id \in RunIds |-> RunItem(id, numbering[id], profile[id][1], profile[id][2], profile[id][3], profile[id][4], NoJobs)]
    /\ selfRunId \in (IF eventName \in {"push", "pull_request"} THEN RunIds \cup {ExternalRunId} ELSE {ExternalRunId})
    /\ selfRunId \in RunIds => (runs[selfRunId].status = "in_progress" /\ runs[selfRunId].event = eventName)
    /\ ref \in (IF eventName = "push" THEN Refs ELSE IF eventName = "pull_request" THEN {HeadRef(b) : b \in Branches} ELSE {BranchRef("b1")})
    /\ (selfRunId \in RunIds /\ ref.prefix \in {branchPrefix, ""}) => WithoutPrefix(ref) = runs[selfRunId].head_branch
    /\ sourceRunId = selfRunId
    /\ cancelMode = DUPLICATES
    /\ notifyPRCancel = FALSE
    /\ jobNameRegexps = NoRegexps
    /\ pc = "start"
    /\ headRepo = Undefined
    /\ headBranch = Undefined
    /\ sourceEventName = Undefined
    /\ workflowRuns = <<>>
    /\ evaluated = 0
    /\ idsToCancel = <<>>
    /\ pullRequestToNotify = <<>>
    /\ sortedIdsToCancel = <<>>
    /\ cancelCalls = <<>>
    /\ cancelled = {}
    /\ comments = <<>>
    /\ calls = {}
    /\ cancelledRuns = <<>>
    /\ failure = NoFailure
    /\ evalArgs = [runItem |-> BaseRun(1, 1, "push"), headRepo |-> Undefined, cancelMode |-> DUPLICATES, sourceRunId |-> 1, jobNamesRegexps |-> NoRegexps, failAt |-> 0]
    /\ evalResult = Returned(FALSE)
    /\ invocation = 1
    /\ failFastJobNames = <<>>
    /\ headsToRunIdMap = <<>>
    /\ outstanding = {}
    /\ matched = FALSE
    /\ workflow = ""
    /\ count = 0
    /\ heads = {}

\* what the second variant never touches
duplicatesRest == <<cancelMode, selfRunId, sourceRunId, eventName, notifyPRCancel, jobNameRegexps, runs, ref, workflowId, headRepo, sourceEventName, idsToCancel, pullRequestToNotify, sortedIdsToCancel, comments, cancelledRuns, evalVars, invocation, failFastJobNames, headsToRunIdMap, outstanding, workflow, count>>

\* run awaits cancelDuplicates on schedule only: on push and pull_request
\* the promise is dropped and run returns while cancelDuplicates goes on
Awaited == eventName = "schedule"

CouldNotResolve == "Could not resolve workflow"

\* cancelDuplicates throws: its promise is rejected.  When run awaits it,
\* the catch of run marks the invocation failed.  When the promise was
\* dropped, no handler sees the rejection: the runtime logs a warning and
\* the process ends with success, or the runtime ends the process with an
\* error; core.setFailed is not called.
Rejected(message) ==
    IF Awaited
    THEN SetFailed(message)
    ELSE /\ pc' \in {"unhandled", "crashed"}
         /\ UNCHANGED failure

\* run, up to the call of cancelDuplicates
DuplicatesStart ==
    /\ pc = "start"
    /\ IF eventName = "schedule"
       THEN /\ IF workflowId = ""
               THEN SetFailed(WorkflowRequired)
               ELSE pc' = "list" /\ UNCHANGED failure
            /\ UNCHANGED headBranch
       ELSE IF eventName \notin {"push", "pull_request"}
       THEN /\ pc' = "done"
            /\ UNCHANGED <<failure, headBranch>>
       ELSE LET pullRequest == eventName = "pull_request" IN
            IF ~pullRequest /\ ~StartsWith(ref, branchPrefix)
            THEN IF StartsWith(ref, tagPrefix)
                 THEN /\ pc' = "done"
                      /\ UNCHANGED <<failure, headBranch>>
                 ELSE /\ SetFailed(UnexpectedRef)
                      /\ UNCHANGED headBranch
            ELSE /\ headBranch' = WithoutPrefix(ref)
                 /\ pc' = "resolve"
                 /\ UNCHANGED failure
    /\ UNCHANGED <<duplicatesRest, matched, heads, workflowRuns, evaluated, cancelCalls, cancelled, calls>>

\* cancelDuplicates without a workflow id: the workflow of the invoking run
\* is fetched
DuplicatesResolve ==
    /\ pc = "resolve"
    /\ calls' = calls \cup {GetWorkflowRun}
    /\ \/ Rejected(RequestFailed)
       \/ Rejected(CouldNotResolve)
       \/ pc' = "list" /\ UNCHANGED failure
    /\ UNCHANGED <<duplicatesRest, headBranch, matched, heads, workflowRuns, evaluated, cancelCalls, cancelled>>

\* the request parameters next to owner, repo and workflow_id
createRunsQuery(status, branch, event) ==
    IF branch = Undefined
    THEN [status |-> status, branch |-> Undefined, event |-> Undefined, run_id |-> 0]
    ELSE [status |-> status, branch |-> branch, event |-> event, run_id |-> 0]

\* the listings of the two statuses
DuplicateListings(statusFiltered) == [s \in 1..Len(statusValues) |-> Paginate(NewestFirst(ListedRuns(createRunsQuery(statusValues[s], headBranch, IF Awaited THEN Undefined ELSE eventName), statusFiltered)))]

\* the TreeMap 'sorted' of cancelDuplicates
sorted(shapes, statusFiltered) == addStatuses(<<>>, DuplicateListings(statusFiltered), shapes, 1)

\* cancelDuplicates: the index is built from the two listings
DuplicatesList ==
    /\ pc = "list"
    /\ calls' = calls \cup {ListWorkflowRuns}
    /\ \E shapes \in ListingShapes, statusFiltered \in BOOLEAN :
        LET got == sorted(shapes, statusFiltered) IN
            IF got.threw
            THEN /\ Rejected(RequestFailed)
                 /\ UNCHANGED <<workflowRuns, matched>>
            ELSE /\ workflowRuns' = got.value
                 /\ matched' = Awaited
                 /\ pc' = "walk"
                 /\ UNCHANGED failure
    /\ UNCHANGED <<duplicatesRest, headBranch, heads, evaluated, cancelCalls, cancelled>>

\* one iteration of 'for (const entry of sorted.backward())'
DuplicatesWalk ==
    /\ pc = "walk"
    /\ evaluated < Cardinality(DOMAIN workflowRuns)
    /\ evaluated' = evaluated + 1
    /\ LET element == workflowRuns[KeysBackward(DOMAIN workflowRuns)[evaluated + 1]]
           head == HeadOf(element) IN
       IF ~matched /\ element.id # selfRunId
       THEN UNCHANGED <<matched, heads, cancelCalls, cancelled, calls>>
       ELSE /\ matched' = TRUE
            /\ IF element.status = "completed" \/ element.event \notin {"push", "pull_request"}
               THEN UNCHANGED <<heads, cancelCalls, cancelled, calls>>
               ELSE IF head \notin heads
               THEN /\ heads' = heads \cup {head}
                    /\ UNCHANGED <<cancelCalls, cancelled, calls>>
               ELSE /\ cancelCalls' = Append(cancelCalls, element.id)
                    /\ \E succeeds \in BOOLEAN : cancelled' = IF succeeds THEN cancelled \cup {element.id} ELSE cancelled
                    /\ calls' = calls \cup {CancelWorkflowRun}
                    /\ UNCHANGED heads
    /\ UNCHANGED <<duplicatesRest, headBranch, workflowRuns, pc, failure>>

\* the walk is over: cancelDuplicates returns
DuplicatesFinish ==
    /\ pc = "walk"
    /\ evaluated = Cardinality(DOMAIN workflowRuns)
    /\ pc' = "done"
    /\ UNCHANGED <<duplicatesRest, headBranch, workflowRuns, evaluated, matched, heads, cancelCalls, cancelled, calls, failure>>

NextDuplicates ==
    \/ DuplicatesStart
    \/ DuplicatesResolve
    \/ DuplicatesList
    \/ DuplicatesWalk
    \/ DuplicatesFinish

SpecDuplicates == InitDuplicates /\ [][NextDuplicates]_vars

-----------------------------------------------------------------------------
(* The index builder applied to two listings (SpecIndex): the listings of  *)
(* 'queued' and of 'in_progress' are sequences of sightings of the runs 1   *)
(* and 2; a run may be sighted several times, with another status each     *)
(* time, as it moves on while the pages are fetched                        *)

Sightings == {RunItem(num, num, status, "push", "r1", "b1", NoJobs) : num \in {1, 2}, status \in {"queued", "in_progress"}}
SightingLists == {<<>>} \cup {<<a>> : a \in Sightings} \cup {<<a, b>> : a, b \in Sightings} \cup {<<a, b, c>> : a, b, c \in Sightings}

IndexArgs == [queued : SightingLists, in_progress : SightingLists, shapes : ListingShapes]

InitIndex ==
    /\ Idle
    /\ pc = "index"
    /\ evalArgs \in IndexArgs
    /\ evalResult = Returned(FALSE)

\* the listings of the two queries, cut in pages
SightedListings == <<Paginate(evalArgs.queued), Paginate(evalArgs.in_progress)>>

\* getWorkflowRuns over the two listings
Index ==
    /\ pc = "index"
    /\ pc' = "indexed"
    /\ evalResult' = addStatuses(<<>>, SightedListings, evalArgs.shapes, 1)
    /\ UNCHANGED <<evalArgs, configVars, otherVars, headRepo, headBranch, sourceEventName, workflowRuns, evaluated, idsToCancel, pullRequestToNotify, sortedIdsToCancel, cancelCalls, cancelled, comments, calls, cancelledRuns, failure>>

NextIndex == Index

SpecIndex == InitIndex /\ [][NextIndex]_vars

-----------------------------------------------------------------------------
(* Properties of the policy evaluator (SpecEval) *)

Applied == pc = "evaluated"
EvalRun == evalArgs.runItem
EvalTrue == evalResult = Returned(TRUE)
EvalFalse == evalResult = Returned(FALSE)

\* C1: a run whose status is 'completed' is never a cancellation candidate:
\* shouldBeCancelled returns false for it under each of the four policies,
\* whatever its other fields, the source run id and the job patterns are.
C1_CompletedNeverCancelled ==
    (Applied /\ EvalRun.status = "completed") => EvalFalse

\* a completed run that is the source run, under Self, evaluated to false
C1_Witness ==
    /\ Applied
    /\ EvalRun.status = "completed"
    /\ evalArgs.cancelMode = SELF
    /\ EvalRun.id = evalArgs.sourceRunId
    /\ EvalFalse

\* C2: a run whose event is none of push, pull_request, workflow_run,
\* schedule, workflow_dispatch is never a cancellation candidate, under each
\* of the four policies, whatever its status, id and jobs are.
C2_UncancellableEventNeverCancelled ==
    (Applied /\ EvalRun.event \notin {"push", "pull_request", "workflow_run", "schedule", "workflow_dispatch"}) => EvalFalse

\* an active older run on the expected head, triggered by a release, under
\* Duplicates, evaluated to false
C2_Witness ==
    /\ Applied
    /\ EvalRun.event = "release"
    /\ EvalRun.status = "in_progress"
    /\ evalArgs.cancelMode = DUPLICATES
    /\ EvalRun.id < evalArgs.sourceRunId
    /\ EvalRun.head_repository.full_name = evalArgs.headRepo
    /\ EvalFalse

\* C3 as stated: under Self the evaluator returns true iff the run is the
\* source run, for any status and event of the run.
C3_SelfIffSourceAnyFields ==
    (Applied /\ evalArgs.cancelMode = SELF) => (EvalTrue <=> EvalRun.id = evalArgs.sourceRunId)

\* C3 (amended): under Self, for a run that is not completed and whose event
\* is cancellable, the evaluator returns true iff the run is the source run,
\* whatever its head repository and head branch are; for a completed run or
\* a run of another event it returns false.
C3_SelfIffSourceWhenActive ==
    (Applied /\ evalArgs.cancelMode = SELF) =>
        /\ ~evalResult.threw
        /\ EvalTrue <=> /\ EvalRun.id = evalArgs.sourceRunId
                        /\ EvalRun.status # "completed"
                        /\ Includes(CANCELLABLE_RUNS, EvalRun.event)

\* the source run, queued, from another repository: Self returns true
C3_Witness ==
    /\ Applied
    /\ evalArgs.cancelMode = SELF
    /\ EvalRun.id = evalArgs.sourceRunId
    /\ EvalRun.status = "queued"
    /\ EvalRun.head_repository.full_name = "r2"
    /\ evalArgs.headRepo = "r1"
    /\ EvalTrue

\* C4: under Duplicates, for a run that is not completed, has a cancellable
\* event and the expected head repository, the evaluator returns true iff
\* the run's id is lower than the source run id.
C4_DuplicatesIffOlder ==
    (/\ Applied
     /\ evalArgs.cancelMode = DUPLICATES
     /\ EvalRun.status # "completed"
     /\ Includes(CANCELLABLE_RUNS, EvalRun.event)
     /\ EvalRun.head_repository.full_name = evalArgs.headRepo)
        => /\ ~evalResult.threw
           /\ EvalTrue <=> EvalRun.id < evalArgs.sourceRunId

\* the source run itself, active on the expected head: not a candidate
C4_Witness ==
    /\ Applied
    /\ evalArgs.cancelMode = DUPLICATES
    /\ EvalRun.status = "in_progress"
    /\ EvalRun.event = "pull_request"
    /\ EvalRun.head_repository.full_name = evalArgs.headRepo
    /\ EvalRun.id = evalArgs.sourceRunId
    /\ EvalFalse

\* C5: under Duplicates with the expected head repository defined, a run of
\* another head repository is never a cancellation candidate, whatever its
\* id, status and branch are.
C5_OtherRepoNeverCancelled ==
    (/\ Applied
     /\ evalArgs.cancelMode = DUPLICATES
     /\ evalArgs.headRepo # Undefined
     /\ EvalRun.head_repository.full_name # evalArgs.headRepo) => EvalFalse

\* an active older push run from a fork: not a candidate
C5_Witness ==
    /\ Applied
    /\ evalArgs.cancelMode = DUPLICATES
    /\ evalArgs.headRepo = "r1"
    /\ EvalRun.head_repository.full_name = "r2"
    /\ EvalRun.status = "in_progress"
    /\ EvalRun.event = "push"
    /\ EvalRun.id < evalArgs.sourceRunId
    /\ EvalFalse

-----------------------------------------------------------------------------
(* Properties of one invocation (Spec) *)

\* the cancel loop is over: every cancel call of the invocation was issued
CancelLoopOver == pc \in {"return", "notify", "done"}

CalledIds == Range(cancelCalls)

SourceRun == runs[sourceRunId]
SameHead(id) ==
    /\ runs[id].head_repository.full_name = SourceRun.head_repository.full_name
    /\ runs[id].head_branch = SourceRun.head_branch

\* C6 as stated: under Duplicates the runs that receive a cancel call are
\* exactly the runs that are not completed, have a cancellable event, share
\* the source run's head repository and head branch and have a lower id.
C6_CancelsExactlyOlderOnHead ==
    (cancelMode = DUPLICATES /\ CancelLoopOver) =>
        CalledIds = {id \in RunIds : /\ runs[id].status # "completed"
                                     /\ Includes(CANCELLABLE_RUNS, runs[id].event)
                                     /\ SameHead(id)
                                     /\ id < sourceRunId}

\* the runs the Duplicates policy is to cancel: the older queued and
\* in_progress runs with the head and the event of the source run
OlderDuplicates ==
    {id \in RunIds : /\ runs[id].status \in {"queued", "in_progress"}
                     /\ runs[id].event = SourceRun.event
                     /\ Includes(CANCELLABLE_RUNS, runs[id].event)
                     /\ SameHead(id)
                     /\ id < sourceRunId}

\* C6 (amended): under Duplicates no run outside OlderDuplicates ever
\* receives a cancel call, and once the cancel loop is over the runs that
\* received one are exactly OlderDuplicates: the queued and in_progress runs
\* of the source workflow with the source run's head repository, head branch
\* and (cancellable) event and a lower id.
C6_CancelsExactlyOlderOnHeadAndEvent ==
    cancelMode = DUPLICATES =>
        /\ CalledIds \subseteq OlderDuplicates
        /\ CancelLoopOver => CalledIds = OlderDuplicates

\* source run 3 with the older runs 1 and 2 on its head; run 2 was
\* triggered by another event and is left alone, run 1 is cancelled
C6_Witness ==
    /\ cancelMode = DUPLICATES
    /\ pc = "done"
    /\ sourceRunId = 3
    /\ SameHead(2) /\ runs[2].status = "in_progress"
    /\ runs[2].event = "pull_request" /\ SourceRun.event = "push"
    /\ cancelCalls = <<1>>

\* C7: within one invocation the cancel calls are issued in strictly
\* ascending order of the run ids, whatever order the candidates were
\* collected in.
C7_CancelCallsAscending ==
    \A i, j \in DOMAIN cancelCalls : i < j => cancelCalls[i] < cancelCalls[j]

\* candidates collected as 2, 1, 3 and cancelled as 1, 2, 3
C7_Witness ==
    /\ idsToCancel = <<2, 1, 3>>
    /\ cancelCalls = <<1, 2, 3>>

\* C8 as stated: when the invoking run is among the candidates its cancel
\* call is the last one: every other candidate has received its cancel call
\* by the time the invoking run receives its own.
C8_SelfCancelledLast ==
    selfRunId \in CalledIds => Range(sortedIdsToCancel) \subseteq CalledIds

\* C9: a failing cancel call is swallowed.  Once the cancel loop is over the
\* cancel calls are the candidates, each called once, whether the calls
\* succeeded or not; and an invocation that has issued a cancel call is only
\* ever marked failed by a pull request comment that could not be posted,
\* after every candidate has received its cancel call.
C9_CancelFailureSwallowed ==
    /\ CancelLoopOver =>
        /\ cancelCalls = sortedIdsToCancel
        /\ Range(idsToCancel) = CalledIds
        /\ Len(cancelCalls) = Cardinality(CalledIds)
    /\ (pc = "failed" /\ cancelCalls # <<>>) =>
        /\ cancelCalls = sortedIdsToCancel
        /\ Len(comments) < Len(pullRequestToNotify)

\* three candidates, the cancel calls of the first two failed, the
\* invocation completed
C9_Witness ==
    /\ pc = "done"
    /\ cancelCalls = <<1, 2, 3>>
    /\ cancelled = {3}
    /\ failure = NoFailure

\* C10 as stated: the reported list of cancelled runs holds a run id only
\* if the cancel call for that run succeeded.
C10_ReportedOnlyIfCancelled ==
    pc = "done" => Range(cancelledRuns) \subseteq cancelled

\* the run the evaluation loop is at
CurrentRunItem == workflowRuns[KeysAscending(DOMAIN workflowRuns)[evaluated + 1]]

\* C11 as stated: when the pull request lookup for a candidate run fails,
\* the failure is recovered locally: the candidate the lookup was made for
\* and the candidates collected before it still receive their cancel calls
\* before the invocation ends.
C11_LookupFailureRecovered ==
    (pc = "failed" /\ failure = LookupFailed) =>
        /\ CurrentRunItem.id \in CalledIds
        /\ Range(idsToCancel) \subseteq CalledIds

\* C12 as stated: a pull request comment that cannot be posted after the
\* cancellations does not mark the invocation failed.
C12_CommentFailureRecovered ==
    ~(pc = "failed" /\ failure = CommentFailed)

\* C13 as stated: with a non-empty list of job name patterns and the Self or
\* Duplicates policy the invocation fails with the configuration error, and
\* no network call of any kind has been issued when it fails.
C13_JobNamesRejectedBeforeAnyCall ==
    (Len(jobNameRegexps) > 0 /\ cancelMode \in {DUPLICATES, SELF} /\ pc = "failed") =>
        /\ failure = JobNamesNotAllowed
        /\ calls = {}

-----------------------------------------------------------------------------
(* Properties of the job inspector (SpecInspect) *)

Inspected == pc = "inspected"

\* a job of the listing, on any page, with a name that matches one of the
\* patterns and, when failed is asked for, the conclusion 'failure'
HasMatchingJob(failed) ==
    \E p \in DOMAIN evalArgs.pages : \E k \in DOMAIN evalArgs.pages[p] :
        /\ matchInArray(evalArgs.pages[p][k].name, evalArgs.jobNameRegexps)
        /\ failed => evalArgs.pages[p][k].conclusion = "failure"

\* C15: called with requireFailure = true the job inspector, when it
\* returns, returns true if and only if some job on some page of the run
\* has a matching name and the conclusion 'failure'; a matching job with
\* another conclusion earlier in the listing does not end the scan.
C15_FailedMatchOnAnyPage ==
    (Inspected /\ evalArgs.checkIfFailed /\ ~evalResult.threw) =>
        (evalResult.value <=> HasMatchingJob(TRUE))

\* a matching job that succeeded on the first page, a matching job that
\* failed on the second page: the inspector returns true
C15_Witness ==
    /\ Inspected /\ evalArgs.checkIfFailed /\ evalArgs.failAt = 0
    /\ evalArgs.jobNameRegexps = RegexpsStatic
    /\ evalArgs.pages = << <<Job(StaticChecks, "success")>>, <<Job(BuildDocs, "failure"), Job(StaticChecks, "failure")>> >>
    /\ evalResult = Returned(TRUE)

\* C16: called with requireFailure = false the job inspector, when it
\* returns, returns true if and only if some job on some page of the run
\* has a matching name, whatever its conclusion; it returns false when the
\* pages are exhausted without a match.
C16_AnyMatchOnAnyPage ==
    (Inspected /\ ~evalArgs.checkIfFailed /\ ~evalResult.threw) =>
        (evalResult.value <=> HasMatchingJob(FALSE))

\* the only matching job is on the second page and succeeded
C16_Witness ==
    /\ Inspected /\ ~evalArgs.checkIfFailed /\ evalArgs.failAt = 0
    /\ evalArgs.jobNameRegexps = RegexpsStatic
    /\ evalArgs.pages = << <<Job(BuildDocs, "failure")>>, <<Job(StaticChecks, "success")>> >>
    /\ evalResult = Returned(TRUE)

-----------------------------------------------------------------------------
(* Properties of two invocations in a row (SpecRerun) *)

AllCompleted == \A id \in DOMAIN runs : runs[id].status = "completed"

\* C17: when every run of the repository is completed, an invocation and
\* the invocation that follows it issue no cancel call and post no comment
\* of cancellation, and each that completes reports an empty list; the
\* second meets the state the first one met.
C17_NothingToCancelTwice ==
    AllCompleted =>
        /\ cancelCalls = <<>>
        /\ comments = <<>>
        /\ idsToCancel = <<>>
        /\ cancelledRuns = <<>>

\* the second invocation found completed runs in its index and ended with
\* an empty list
C17_Witness ==
    /\ AllCompleted
    /\ invocation = 2
    /\ pc = "done"
    /\ Cardinality(DOMAIN workflowRuns) = MaxRunId
    /\ cancelledRuns = <<>>
    /\ cancelCalls = <<>>

-----------------------------------------------------------------------------
(* Properties of the scheduled sweep (SpecSweep) *)

\* C14: when the event is 'schedule' and the input 'workflow' is not given
\* the invocation is marked failed with the message that asks for it,
\* and no network call (no listing, no job listing, no cancel call) is
\* ever issued.
C14_ScheduleNeedsWorkflow ==
    (eventName = "schedule" /\ workflowId = "") =>
        /\ calls = {}
        /\ cancelCalls = <<>>
        /\ pc # "start" => (pc = "failed" /\ failure = WorkflowRequired)

C14_Witness ==
    /\ eventName = "schedule" /\ workflowId = ""
    /\ pc = "failed" /\ failure = WorkflowRequired
    /\ \E id \in RunIds : runs[id].status = "in_progress"

\* a run the sweep considers: not completed, triggered by push or pull_request
Active(id) == runs[id].status # "completed" /\ runs[id].event \in {"push", "pull_request"}

\* the active run with the highest run number among the active runs of its head
Newest(id) ==
    /\ Active(id)
    /\ \A other \in RunIds : (Active(other) /\ HeadOf(runs[other]) = HeadOf(runs[id])) => runs[other].run_number <= runs[id].run_number

CancelCallsFor(id) == Cardinality({i \in DOMAIN cancelCalls : cancelCalls[i] = id})

HasFailedFailFastJob(id) ==
    \E p \in DOMAIN runs[id].jobs : \E k \in DOMAIN runs[id].jobs[p] :
        /\ runs[id].jobs[p][k].conclusion = "failure"
        /\ SomeMatch(runs[id].jobs[p][k].name, failFastJobNames)

\* C19: in a sweep with fail-fast patterns the newest active run of a head
\* receives a cancel call only if one of its jobs failed and has a matching
\* name, and when the sweep has walked the whole index it has received one
\* if and only if it has such a job; no run receives more than one cancel
\* call; the older active runs of the head have each received one, whatever
\* their jobs are.
C19_KeptRunCancelledIffFailFast ==
    (failFastJobNames.kind = "array" /\ failFastJobNames.items # <<>>) =>
        \A id \in RunIds :
            /\ CancelCallsFor(id) <= 1
            /\ (Newest(id) /\ CancelCallsFor(id) = 1) => HasFailedFailFastJob(id)
            /\ (pc = "done" /\ Newest(id) /\ HasFailedFailFastJob(id)) => CancelCallsFor(id) = 1
            /\ (pc = "done" /\ Active(id) /\ ~Newest(id)) => CancelCallsFor(id) = 1

\* the newest run failed in a matching job on its second page of jobs and
\* is cancelled; an older run without a failed job is cancelled as well
C19_Witness ==
    /\ failFastJobNames = Array(RegexpsStatic)
    /\ pc = "done"
    /\ \E id, older \in RunIds :
        /\ Newest(id) /\ runs[id].jobs = JobsFailedLater /\ CancelCallsFor(id) = 1
        /\ Active(older) /\ ~Newest(older) /\ runs[older].jobs = JobsDocsOnly /\ CancelCallsFor(older) = 1

-----------------------------------------------------------------------------
(* Properties of the original variant (SpecPush) *)

\* C20 as stated: at most one cancel call is outstanding at any time, and
\* the invocation does not finish while a cancel call is outstanding.
C20_OneCancelOutstanding ==
    /\ Cardinality(outstanding) <= 1
    /\ pc = "done" => outstanding = {}

-----------------------------------------------------------------------------
(* Properties of the order of evaluation, cancellation and notification
   in findAndCancelRuns (Spec) *)

\* C29: in findAndCancelRuns no cancel call is issued before the policy has
\* been evaluated for every run of the index; when the evaluation of a run
\* (its job inspection included) fails, the invocation fails with no cancel
\* call issued.
C29_NoCancelBeforeAllEvaluated ==
    /\ cancelCalls # <<>> => evaluated = Cardinality(DOMAIN workflowRuns)
    /\ evaluated < Cardinality(DOMAIN workflowRuns) => cancelCalls = <<>> /\ CancelWorkflowRun \notin calls
    /\ (pc = "failed" /\ evaluated < Cardinality(DOMAIN workflowRuns)) => cancelCalls = <<>> /\ cancelled = {}

\* the inspection of the jobs of the second run of the index fails when the
\* first run is already a candidate: the invocation has failed and no
\* cancel call was issued
C29_Witness ==
    /\ pc = "failed"
    /\ failure = RequestFailed
    /\ cancelMode \in {FAILED_JOBS, NAMED_JOBS}
    /\ ListJobsForWorkflowRun \in calls
    /\ evaluated >= 1
    /\ evaluated < Cardinality(DOMAIN workflowRuns)
    /\ idsToCancel # <<>>
    /\ cancelCalls = <<>>

\* C30 as stated: the pull request of a candidate is resolved, and the
\* comment posted, only after all cancel calls of the invocation have
\* returned, only when the notification was requested, and only for
\* candidate runs whose event is pull_request.
C30_ResolvedAndPostedAfterAllCancels ==
    /\ (pullRequestToNotify # <<>> \/ comments # <<>>) =>
            /\ sortedIdsToCancel # <<>>
            /\ Len(cancelCalls) = Len(sortedIdsToCancel)
    /\ pullRequestToNotify # <<>> => notifyPRCancel
    /\ \A pullRequest \in Range(pullRequestToNotify) :
            \E key \in DOMAIN workflowRuns :
                /\ workflowRuns[key].id \in Range(idsToCancel)
                /\ workflowRuns[key].event = "pull_request"
                /\ PullRequestOf(workflowRuns[key]) = pullRequest

\* the listing of the original variant, page after page
RECURSIVE Flatten(_)
Flatten(pages) ==
    IF pages = <<>> THEN <<>> ELSE Head(pages) \o Flatten(Tail(pages))

\* the runs listed after the invoking run
ListedAfterSelf ==
    LET listing == Flatten(RepoPages) IN
        {listing[j].id : j \in {j \in 1..Len(listing) : \E i \in 1..(j - 1) : listing[i].id = selfRunId}}

\* the runs of the listing the original variant is to cancel
ToCancelAfterSelf ==
    {id \in ListedAfterSelf : runs[id].workflow_url = runs[selfRunId].workflow_url /\ runs[id].status # "completed"}

\* C28: in the original variant a cancel call is issued for a run if and
\* only if it is listed after the invoking run, has the workflow_url of the
\* invoking run and is not completed; the invoking run and the runs listed
\* before it never receive a cancel call, and while the invoking run has
\* not been seen in the listing no cancel call is issued.
C28_CancelsExactlyListedAfterSelf ==
    /\ ~matched => cancelCalls = <<>>
    /\ matched => Range(cancelCalls) \subseteq ToCancelAfterSelf
    /\ \A i, j \in 1..Len(cancelCalls) : cancelCalls[i] = cancelCalls[j] => i = j
    /\ selfRunId \notin Range(cancelCalls)
    /\ (pc = "done" /\ matched) => Range(cancelCalls) = ToCancelAfterSelf

\* the listing is exhausted: of the runs listed after the invoking run the
\* one of its workflow has a cancel call, the one of another workflow has
\* none
C28_Witness ==
    /\ pc = "done"
    /\ matched
    /\ selfRunId = MaxRunId
    /\ \E id, other \in ListedAfterSelf :
        /\ id \in Range(cancelCalls)
        /\ runs[other].workflow_url # runs[selfRunId].workflow_url
        /\ runs[other].status # "completed"
        /\ other \notin Range(cancelCalls)

\* C22 as stated: when a page of the listing is malformed or its fetch
\* fails, the invocation is failed and no cancel call has been issued.
C22_NoCancelOnBrokenListing ==
    (pc = "failed" /\ failure \in {RequestFailed, NotIterableError}) => (cancelCalls = <<>> /\ CancelWorkflowRun \notin calls)

\* C24 as stated: whatever the place of the page in the listing, the
\* elements taken from it are the same whether it comes as a bare array or
\* as an object with workflow_runs.
C24_SameElementsForBothShapes ==
    (pc = "page" /\ count < Len(RepoPages)) =>
        /\ CountedElements(PageData("array", RepoPages[count + 1]), count + 1) = Iterable(RepoPages[count + 1])
        /\ CountedElements(PageData("object", RepoPages[count + 1]), count + 1) = Iterable(RepoPages[count + 1])

-----------------------------------------------------------------------------
(* Properties of the index (SpecIndex) *)

\* the sightings of the two listings in the order they are read
AllSightings == evalArgs.queued \o evalArgs.in_progress

\* the index was built from the two listings
Indexed == pc = "indexed" /\ ~evalResult.threw

\* C23: after the index has been populated from the 'queued' and the
\* 'in_progress' listings, it holds one record for each run number sighted:
\* a run sighted in several pages or in both listings is there once, with
\* the fields of its latest sighting, and the records are visited in
\* ascending order of run number.
C23_OneRecordPerRunNumber ==
    Indexed =>
        LET index == evalResult.value
            keys == KeysAscending(DOMAIN index) IN
        /\ DOMAIN index = {AllSightings[i].run_number : i \in 1..Len(AllSightings)}
        /\ \A key \in DOMAIN index :
            \E i \in 1..Len(AllSightings) :
                /\ AllSightings[i].run_number = key
                /\ index[key] = AllSightings[i]
                /\ \A j \in (i + 1)..Len(AllSightings) : AllSightings[j].run_number # key
        /\ Len(keys) = Cardinality(DOMAIN index)
        /\ \A i, j \in 1..Len(keys) : i < j => keys[i] < keys[j]

\* run 1 is sighted as queued on both pages of the first listing and as
\* in_progress in the second listing, run 2 in between: the index holds
\* run 1 once, as in_progress
C23_Witness ==
    /\ Indexed
    /\ evalArgs.queued = <<RunItem(1, 1, "queued", "push", "r1", "b1", NoJobs), RunItem(2, 2, "queued", "push", "r1", "b1", NoJobs), RunItem(1, 1, "queued", "push", "r1", "b1", NoJobs)>>
    /\ Len(SightedListings[1]) > 1
    /\ evalArgs.in_progress = <<RunItem(1, 1, "in_progress", "push", "r1", "b1", NoJobs)>>
    /\ DOMAIN evalResult.value = {1, 2}
    /\ evalResult.value[1].status = "in_progress"

-----------------------------------------------------------------------------
(* Properties of the runs the schedule sweep skips (SpecSweep) *)

\* the run is in the index of the sweep
InIndex(id) == \E key \in DOMAIN workflowRuns : workflowRuns[key].id = id

\* C25: in a sweep, a run that is completed or whose event is neither push
\* nor pull_request never receives a cancel call and is never the run kept
\* for its head; the run kept for a head is the newest active
\* push/pull_request run of that head, whatever skipped runs come before it.
C25_SkippedRunNeitherCancelledNorKept ==
    /\ \A id \in RunIds :
        ~Active(id) =>
            /\ CancelCallsFor(id) = 0
            /\ \A head \in DOMAIN headsToRunIdMap : headsToRunIdMap[head] # id
    /\ \A head \in DOMAIN headsToRunIdMap :
        /\ HeadOf(runs[headsToRunIdMap[head]]) = head
        /\ Newest(headsToRunIdMap[head])
    /\ pc = "done" =>
        \A id \in RunIds : Newest(id) =>
            /\ HeadOf(runs[id]) \in DOMAIN headsToRunIdMap
            /\ headsToRunIdMap[HeadOf(runs[id])] = id

\* the run with the highest run number of a head is completed and in the
\* index, the next is triggered by workflow_run: both are skipped, and the
\* oldest run, an active push run, is the one kept
C25_Witness ==
    /\ pc = "done"
    /\ \E newest, next, kept \in RunIds :
        /\ runs[newest].run_number = MaxRunId /\ runs[newest].status = "completed" /\ InIndex(newest)
        /\ runs[next].run_number = MaxRunId - 1 /\ runs[next].event = "workflow_run" /\ InIndex(next)
        /\ HeadOf(runs[newest]) = HeadOf(runs[kept]) /\ HeadOf(runs[next]) = HeadOf(runs[kept])
        /\ runs[kept].run_number < runs[next].run_number
        /\ Active(kept)
        /\ headsToRunIdMap[HeadOf(runs[kept])] = kept
        /\ cancelCalls = <<>>

-----------------------------------------------------------------------------
(* Properties of the second variant of main.ts (SpecDuplicates) *)

\* an error was raised and ended run or cancelDuplicates
ErrorRaised == pc \in {"failed", "unhandled", "crashed"}

\* C21 as stated: every fatal error raised during an invocation (the run
\* not found, the workflow not resolved, a listing call failing) marks the
\* invocation failed with the message of the error, on the schedule path
\* and on the push/pull_request path alike.
C21_FatalErrorMarksFailed ==
    ErrorRaised => (pc = "failed" /\ failure \in {WorkflowRequired, UnexpectedRef, RequestFailed, CouldNotResolve})

\* C26: on push and pull_request every cancel call is for a run of the
\* index whose run number is lower than the run number of the invoking
\* run; the invoking run and the runs with a higher run number receive no
\* cancel call, and when the invoking run is not in the index no cancel
\* call is issued.
C26_CancelsOnlyOlderThanSelf ==
    eventName \in {"push", "pull_request"} =>
        /\ \A i \in DOMAIN cancelCalls :
            /\ selfRunId \in RunIds
            /\ InIndex(selfRunId)
            /\ runs[cancelCalls[i]].run_number < runs[selfRunId].run_number
        /\ ~(selfRunId \in RunIds /\ InIndex(selfRunId)) => cancelCalls = <<>>
        /\ selfRunId \notin Range(cancelCalls)

\* the walk is over; the invoking run has an active run of its head above
\* it and one below it: the one below has a cancel call, the one above none
C26_Witness ==
    /\ eventName \in {"push", "pull_request"}
    /\ pc = "done"
    /\ selfRunId \in RunIds
    /\ \E newer, older \in RunIds :
        /\ runs[newer].run_number > runs[selfRunId].run_number
        /\ runs[older].run_number < runs[selfRunId].run_number
        /\ Active(newer) /\ Active(older)
        /\ HeadOf(runs[newer]) = HeadOf(runs[selfRunId])
        /\ HeadOf(runs[older]) = HeadOf(runs[selfRunId])
        /\ runs[newer].event = eventName /\ runs[older].event = eventName
        /\ cancelCalls = <<older>>

\* C27 as stated: on push and pull_request the set of heads holds at most
\* one element at every point of the walk.
C27_HeadsSetOfOne ==
    eventName \in {"push", "pull_request"} => Cardinality(heads) <= 1

-----------------------------------------------------------------------------
(* Properties of the checks of the inputs in run (Spec) *)

\* C31: when the event of the invocation is workflow_run, no source run id
\* is given (sourceRunId = selfRunId) and the mode is duplicates, the
\* invocation fails before the origin is resolved, and no listing, no
\* cancel call, no pull request lookup and no comment is ever issued.
C31_WorkflowRunNeedsSourceId ==
    (eventName = "workflow_run" /\ sourceRunId = selfRunId /\ cancelMode = DUPLICATES) =>
        /\ pc \in {"start", "failed"}
        /\ headRepo = Undefined /\ headBranch = Undefined /\ sourceEventName = Undefined
        /\ calls \subseteq {GetWorkflowRun}
        /\ workflowRuns = <<>>
        /\ cancelCalls = <<>>
        /\ comments = <<>>

\* the workflow of the invoking run was resolved and the check of the
\* event failed the invocation, with active runs in the repository
C31_Witness ==
    /\ eventName = "workflow_run" /\ sourceRunId = selfRunId /\ cancelMode = DUPLICATES
    /\ pc = "failed"
    /\ failure = SourceIdRequired
    /\ calls = {GetWorkflowRun}
    /\ \E id \in RunIds : id # sourceRunId /\ runs[id].status = "in_progress"

-----------------------------------------------------------------------------
(* Properties of the events and refs the second variant skips
   (SpecDuplicates) *)

\* the invocation has nothing to do: the event is not one of schedule, push
\* and pull_request, or the event is push and the ref is a tag
Skipped ==
    \/ eventName \notin {"schedule", "push", "pull_request"}
    \/ eventName = "push" /\ ref.prefix = tagPrefix

\* C32: when the event is none of schedule, push and pull_request, or the
\* ref of a push is a tag, the invocation issues no listing and no cancel
\* call and finishes without being marked failed.
C32_SkippedEventOrTagDoesNothing ==
    Skipped =>
        /\ pc \in {"start", "done"}
        /\ failure = NoFailure
        /\ calls = {}
        /\ workflowRuns = <<>>
        /\ cancelCalls = <<>>

\* a push of a tag has finished, while the invoking run has an older
\* active run of its head that a push of the branch would have cancelled
C32_Witness ==
    /\ eventName = "push" /\ ref.prefix = tagPrefix
    /\ pc = "done"
    /\ selfRunId \in RunIds
    /\ \E older \in RunIds :
        /\ runs[older].run_number < runs[selfRunId].run_number
        /\ Active(older) /\ runs[older].event = "push"
        /\ HeadOf(runs[older]) = HeadOf(runs[selfRunId])

-----------------------------------------------------------------------------
(* Termination of one invocation (SpecLive) *)

\* run has returned and the output is set, or the invocation is marked
\* failed
Terminated == pc \in {"done", "failed"}

\* C33: when every request returns or fails and the listings have finitely
\* many pages, every invocation eventually ends, completed or marked
\* failed: it neither waits forever nor goes over a run again and again.
C33_EventuallyTerminates == <>Terminated

\* an invocation that went through all three loops has ended: every run of
\* the index was evaluated, two runs had a cancel call and a comment was
\* posted
C33_Witness ==
    /\ pc = "done"
    /\ failure = NoFailure
    /\ evaluated = MaxRunId
    /\ Len(cancelCalls) >= 2
    /\ Len(comments) >= 1
    /\ cancelledRuns = sortedIdsToCancel

====
